---------------------------- MODULE Spec2Model ----------------------------
(***************************************************************************)
(* TheOrganizer: the file mover, the CSV operation log and the undo engine  *)
(* of src/io_ops.py, over an explicit tree-shaped filesystem.               *)
(*                                                                         *)
(* A file or directory name is a sequence of one-character strings, a path *)
(* is a sequence of names (the empty path is the root), and the filesystem  *)
(* maps every existing path to "dir" or to the identity of the file there.  *)
(***************************************************************************)
EXTENDS Naturals, Sequences, FiniteSets, TLC

(***************************************************************************)
(* Bounds of the model and constants of the program.                       *)
(***************************************************************************)
\* FileOrganizer calls (move_file, create_directory_structure) in one behaviour
MaxCalls == 2
\* datetime.now() is read as a value of 1..MaxClock; the wall clock may repeat
\* a value or step back between two operations
MaxClock == 2
\* log rows written by another producer of the CSV format in one behaviour
MaxForeign == 1
\* files a run of organize_files finds a company for
MaxMatches == 2
\* io_ops.py:318: the last suffix _resolve_name_collision tries
CollisionLimit == 9999
\* io_ops.py:342: _sanitize_filename cuts longer names to this length
MaxNameLen == 200

(***************************************************************************)
(* Names and paths.                                                        *)
(***************************************************************************)
Dir == "dir"
F1 == "f1"
F2 == "f2"
FileIds == {F1, F2}

Root == << >>
NameIn == <<"i">>
NameIn2 == <<"j">>
NameOut == <<"o">>
\* a name with an extension; it is both the name of the two files and the
\* company name (a company such as "Acme.Inc" has a dot in its name)
NameCo == <<"c", ".", "o">>
NameCategory == <<"k">>
NameYear == <<"y">>
NameMissing == <<"n", ".", "o">>

InDir == <<NameIn>>
InDir2 == <<NameIn2>>
OutDir == <<NameOut>>
\* the directory create_directory_structure builds for OutDir, NameCo
LeafDir == <<NameOut, NameCo, NameCategory, NameYear>>
MissingSource == <<NameIn, NameMissing>>

Parent(p) == IF Len(p) = 0 THEN p ELSE SubSeq(p, 1, Len(p) - 1)
Basename(p) == p[Len(p)]
\* p is q or lies below q
HasPrefix(p, q) == Len(q) <= Len(p) /\ SubSeq(p, 1, Len(q)) = q
Prefixes(p) == {SubSeq(p, 1, k) : k \in 0..Len(p)}

Exists(s, p) == p \in DOMAIN s
IsDir(s, p) == Exists(s, p) /\ s[p] = Dir
IsFile(s, p) == Exists(s, p) /\ s[p] # Dir
Children(s, p) == {q \in DOMAIN s : Len(q) = Len(p) + 1 /\ HasPrefix(q, p)}
FilePaths(s) == {p \in DOMAIN s : s[p] # Dir}
\* where file f is, as a set (empty when the file is gone)
Where(s, f) == {p \in DOMAIN s : s[p] = f}

\* pathlib.Path.mkdir(parents=True, exist_ok=True): every missing directory on
\* the way is created; a file on the way (or at p) raises and nothing is created
Mkdir(s, p) ==
    IF \E q \in Prefixes(p) : IsFile(s, q)
    THEN [raised |-> TRUE, fs |-> s]
    ELSE [raised |-> FALSE,
          fs |-> [q \in DOMAIN s \cup Prefixes(p) |->
                     IF q \in DOMAIN s THEN s[q] ELSE Dir]]

\* os.rename of src (a file, or a directory with all below it) to dst
Rename(s, src, dst) ==
    LET moved == {p \in DOMAIN s : HasPrefix(p, src)}
        kept == {p \in DOMAIN s : ~HasPrefix(p, src) /\ ~HasPrefix(p, dst)}
        To(p) == dst \o SubSeq(p, Len(src) + 1, Len(p))
        From(q) == src \o SubSeq(q, Len(dst) + 1, Len(q))
    IN  [q \in kept \cup {To(p) : p \in moved} |->
            IF q \in kept THEN s[q] ELSE s[From(q)]]

\* shutil.move(src, dst): into dst when dst is a directory, else onto dst
ShutilMove(s, src, dst) ==
    LET real_dst == IF IsDir(s, dst) THEN dst \o <<Basename(src)>> ELSE dst
    IN  IF ~Exists(s, src) \/ Len(src) = 0
        THEN [raised |-> TRUE, fs |-> s]
        ELSE IF IsDir(s, dst) /\ Exists(s, real_dst)
        THEN [raised |-> TRUE, fs |-> s]
        ELSE IF ~IsDir(s, Parent(real_dst))
        THEN [raised |-> TRUE, fs |-> s]
        ELSE IF IsDir(s, src) /\ (HasPrefix(real_dst, src) \/ IsFile(s, real_dst))
        THEN [raised |-> TRUE, fs |-> s]
        ELSE [raised |-> FALSE, fs |-> Rename(s, src, real_dst)]

\* pathlib.Path.rmdir: only an empty directory can be removed
Rmdir(s, p) ==
    IF ~IsDir(s, p) \/ Children(s, p) # {} \/ Len(p) = 0
    THEN [raised |-> TRUE, fs |-> s]
    ELSE [raised |-> FALSE, fs |-> [q \in DOMAIN s \ {p} |-> s[q]]]


(***************************************************************************)
(* FileOrganizer: name helpers.                                            *)
(***************************************************************************)
InvalidChars == {"<", ">", ":", "\"", "/", "\\", "|", "?", "*"}
Whitespace == {" ", "\t", "\n", "\r", "\f"}
Digits == <<"0", "1", "2", "3", "4", "5", "6", "7", "8", "9">>

\* ' '.join(text.split()): runs of whitespace become one space, and the
\* whitespace at either end is dropped
RECURSIVE JoinSplit(_, _, _)
JoinSplit(name, i, out) ==
    IF i > Len(name) THEN out
    ELSE IF name[i] \in Whitespace THEN JoinSplit(name, i + 1, out)
    ELSE IF out # << >> /\ i > 1 /\ name[i - 1] \in Whitespace
         THEN JoinSplit(name, i + 1, out \o <<" ", name[i]>>)
         ELSE JoinSplit(name, i + 1, Append(out, name[i]))

_sanitize_filename(filename) ==
    LET replaced == [i \in 1..Len(filename) |->
                        IF filename[i] \in InvalidChars THEN "_" ELSE filename[i]]
        joined == JoinSplit(replaced, 1, << >>)
    IN  IF Len(joined) > MaxNameLen THEN SubSeq(joined, 1, MaxNameLen) ELSE joined

\* str(counter)
RECURSIVE Decimal(_)
Decimal(n) ==
    IF n < 10 THEN <<Digits[n + 1]>>
    ELSE Decimal(n \div 10) \o <<Digits[(n % 10) + 1]>>

\* name.rfind('.') counted from 1; 0 when the name has no dot
LastDot(name) ==
    LET dots == {i \in 1..Len(name) : name[i] = "."}
    IN  IF dots = {} THEN 0 ELSE CHOOSE i \in dots : \A j \in dots : j <= i
\* pathlib: the suffix starts at the last dot, unless that dot opens or ends the name
HasSuffix(name) == 1 < LastDot(name) /\ LastDot(name) < Len(name)
Suffix(name) == IF HasSuffix(name) THEN SubSeq(name, LastDot(name), Len(name)) ELSE << >>
Stem(name) == IF HasSuffix(name) THEN SubSeq(name, 1, LastDot(name) - 1) ELSE name

\* pathlib's path / name: an empty or "." segment adds nothing
Join(p, name) == IF name = << >> \/ name = <<".">> THEN p ELSE Append(p, name)

\* f"{base_name}_{counter}{extension}" in the parent directory
CollisionPath(file_path, counter) ==
    Append(Parent(file_path),
           Stem(Basename(file_path)) \o <<"_">> \o Decimal(counter)
               \o Suffix(Basename(file_path)))

\* the loop of _resolve_name_collision is run a block of turns at a time, each
\* block ending at eight times the counter it starts with
BlockEnd(counter, limit) == IF counter * 8 <= limit THEN counter * 8 ELSE limit

\* the counters of a block whose path is free, over the paths that exist
FreeInBlock(paths, file_path, counter, last) ==
    {k \in counter..last : CollisionPath(file_path, k) \notin paths}

\* the least counter of a set, 0 for the empty set
LeastOf(counters) ==
    IF counters = {} THEN 0 ELSE CHOOSE k \in counters : \A j \in counters : k <= j

\* the turns of the loop from counter to last: the first counter whose path
\* is free, 0 when all are taken
ProbeBlock(paths, file_path, counter, last) ==
    LeastOf(FreeInBlock(paths, file_path, counter, last))

\* variant: when every turn has found its path taken, the loop gives the
\* path it was asked for
ProbeFrom_NoLimit(paths, file_path, found, last, limit) ==
    IF found # 0 THEN [raised |-> FALSE, path |-> CollisionPath(file_path, found)]
    ELSE [raised |-> FALSE, path |-> file_path]

\* what the loop comes to once the turns from counter to last have run
RECURSIVE ProbeSuffix(_, _, _, _)
ProbeFrom(paths, file_path, found, last, limit) ==
    IF found # 0 THEN [raised |-> FALSE, path |-> CollisionPath(file_path, found)]
    ELSE IF last + 1 > limit THEN [raised |-> TRUE, path |-> file_path]
    ELSE ProbeSuffix(paths, file_path, last + 1, limit)

\* the loop of _resolve_name_collision, entered with counter, over the paths
\* that exist
ProbeSuffix(paths, file_path, counter, limit) ==
    ProbeFrom(paths, file_path,
              ProbeBlock(paths, file_path, counter, BlockEnd(counter, limit)),
              BlockEnd(counter, limit), limit)

\* variant: the path is taken as it is
_resolve_name_collision_Overwrite(s, file_path, dry) ==
    [raised |-> FALSE, path |-> file_path]

_resolve_name_collision(s, file_path, dry) ==
    IF ~Exists(s, file_path) \/ dry
    THEN [raised |-> FALSE, path |-> file_path]
    ELSE ProbeSuffix(DOMAIN s, file_path, 1, CollisionLimit)

(***************************************************************************)
(* The operation log: a CSV file of one header line and one line per       *)
(* FileOperation.                                                           *)
(***************************************************************************)
OpMove == "move"
OpCopy == "copy"
OpCreateDir == "create_dir"
OperationType == {OpMove, OpCopy, OpCreateDir}

\* the line csv.DictWriter.writeheader writes
HeaderLine ==
    [header |-> TRUE, operation_type |-> "operation_type", original_path |-> Root,
     new_path |-> Root, timestamp |-> 0, success |-> "success",
     error_message |-> "error_message"]

\* str(bool)
BoolText(b) == IF b THEN "True" ELSE "False"

\* FileOperation(...).to_dict() as the line writerow writes
to_dict(type, original, new, ts, ok, msg) ==
    [header |-> FALSE, operation_type |-> type, original_path |-> original,
     new_path |-> new, timestamp |-> ts, success |-> BoolText(ok),
     error_message |-> msg]

NoFile == [exists |-> FALSE, lines |-> << >>]

\* FileOperationLogger._write_to_csv: the header goes first into a file that
\* did not exist, then the line is appended
_write_to_csv(file, line) ==
    [exists |-> TRUE,
     lines |-> IF file.exists THEN Append(file.lines, line)
               ELSE <<HeaderLine, line>>]

(***************************************************************************)
(* FileOrganizer.create_directory_structure and FileOrganizer.move_file,   *)
(* as functions of the filesystem s, the log file, the organizer's fields  *)
(* (dry, attached: a logger is set) and the clock reading ts.              *)
(***************************************************************************)
\* FileOperationLogger.log_operation, when a logger is attached
Log(file, attached, line) == IF attached THEN _write_to_csv(file, line) ELSE file

create_directory_structure(s, file, dry, attached, base_path, company_name, year, category, ts) ==
    LET dir_path == Join(Join(Join(base_path, _sanitize_filename(company_name)),
                              _sanitize_filename(category)), year)
        made == Mkdir(s, dir_path)
    IN  IF dry
        THEN [fs |-> s, csv |-> file, raised |-> FALSE, path |-> dir_path]
        ELSE IF ~made.raised
        THEN [fs |-> made.fs,
              csv |-> Log(file, attached,
                          to_dict(OpCreateDir, Root, dir_path, ts, TRUE, "")),
              raised |-> FALSE, path |-> dir_path]
        ELSE [fs |-> s,
              csv |-> Log(file, attached,
                          to_dict(OpCreateDir, Root, dir_path, ts, FALSE, "error")),
              raised |-> TRUE, path |-> dir_path]

\* variant: the directory is made, the file is not moved
MoveAttempt_NoMove(s, source, dest_dir, final_path) ==
    Mkdir(s, dest_dir)

\* the try block of move_file: the directory, then the move
MoveAttempt(s, source, dest_dir, final_path) ==
    LET made == Mkdir(s, dest_dir)
    IN  IF made.raised THEN made ELSE ShutilMove(made.fs, source, final_path)

\* variant: the name collision is resolved in simulate mode too
move_file_DryResolves(s, file, dry, attached, source, dest_dir, ts) ==
    LET resolved == _resolve_name_collision(s, Append(dest_dir, Basename(source)), FALSE)
        final_path == resolved.path
        attempt == IF dry THEN [raised |-> FALSE, fs |-> s]
                   ELSE MoveAttempt(s, source, dest_dir, final_path)
    IN  IF ~Exists(s, source)
        THEN [fs |-> s, csv |-> file, ok |-> FALSE, path |-> Root, raised |-> FALSE]
        ELSE IF resolved.raised
        THEN [fs |-> s, csv |-> file, ok |-> FALSE, path |-> Root, raised |-> TRUE]
        ELSE IF ~attempt.raised
        THEN [fs |-> attempt.fs,
              csv |-> Log(file, attached,
                          to_dict(OpMove, source, final_path, ts, TRUE, "")),
              ok |-> TRUE, path |-> final_path, raised |-> FALSE]
        ELSE [fs |-> attempt.fs,
              csv |-> Log(file, attached,
                          to_dict(OpMove, source, final_path, ts, FALSE, "error")),
              ok |-> FALSE, path |-> Root, raised |-> FALSE]

move_file(s, file, dry, attached, source, dest_dir, ts) ==
    LET resolved == _resolve_name_collision(s, Append(dest_dir, Basename(source)), dry)
        final_path == resolved.path
        attempt == IF dry THEN [raised |-> FALSE, fs |-> s]
                   ELSE MoveAttempt(s, source, dest_dir, final_path)
    IN  IF ~Exists(s, source)
        THEN [fs |-> s, csv |-> file, ok |-> FALSE, path |-> Root, raised |-> FALSE]
        ELSE IF resolved.raised
        THEN [fs |-> s, csv |-> file, ok |-> FALSE, path |-> Root, raised |-> TRUE]
        ELSE IF ~attempt.raised
        THEN [fs |-> attempt.fs,
              csv |-> Log(file, attached,
                          to_dict(OpMove, source, final_path, ts, TRUE, "")),
              ok |-> TRUE, path |-> final_path, raised |-> FALSE]
        ELSE [fs |-> attempt.fs,
              csv |-> Log(file, attached,
                          to_dict(OpMove, source, final_path, ts, FALSE, "error")),
              ok |-> FALSE, path |-> Root, raised |-> FALSE]

(***************************************************************************)
(* Reading the log back: csv.DictReader, FileOperation.from_dict,          *)
(* FileOperationLogger.load_operations_from_csv.                            *)
(***************************************************************************)
\* str.lower() on the texts a success column holds
LowerText(t) ==
    IF t \in {"True", "TRUE", "true"} THEN "true"
    ELSE IF t \in {"False", "FALSE", "false"} THEN "false"
    ELSE t

\* datetime.fromisoformat accepts the clock readings and nothing else
IsIsoTimestamp(t) == t \in Nat /\ t >= 1

\* from_dict raises on an operation type outside the enumeration and on a
\* timestamp that is no ISO text
FromDictRaises(line) ==
    line.operation_type \notin OperationType \/ ~IsIsoTimestamp(line.timestamp)

from_dict(line) ==
    [operation_type |-> line.operation_type, original_path |-> line.original_path,
     new_path |-> line.new_path, timestamp |-> line.timestamp,
     success |-> (LowerText(line.success) = "true"),
     error_message |-> line.error_message]

\* DictReader takes the first line as the field names; with any other first
\* line than the header every row lacks the keys from_dict reads, and a row
\* from_dict raises on is skipped
load_operations_from_csv(file) ==
    IF file.lines = << >> \/ ~Head(file.lines).header THEN << >>
    ELSE LET rows == SelectSeq(Tail(file.lines), LAMBDA l : ~FromDictRaises(l))
         IN  [i \in 1..Len(rows) |-> from_dict(rows[i])]

Reverse(seq) == [i \in 1..Len(seq) |-> seq[Len(seq) + 1 - i]]

\* variant: the successful operations in the order of the log
SuccessfulOperations_Forward(operations) ==
    SelectSeq(operations, LAMBDA op : op.success)

\* undo_operations, lines 398-399: the successful operations, last first
SuccessfulOperations(operations) ==
    Reverse(SelectSeq(operations, LAMBDA op : op.success))

(***************************************************************************)
(* UndoManager: one record.                                                *)
(***************************************************************************)
\* variant: the parents are made, the file is not moved
UndoMoveAttempt_NoMove(s, new_path, original_path) ==
    Mkdir(s, Parent(original_path))

\* the try block of _undo_move_operation
UndoMoveAttempt(s, new_path, original_path) ==
    LET made == Mkdir(s, Parent(original_path))
    IN  IF made.raised THEN made ELSE ShutilMove(made.fs, new_path, original_path)

\* variant: an occupied original path is not looked for
_undo_move_operation_NoCheck(s, operation, dry) ==
    LET attempt == IF dry THEN [raised |-> FALSE, fs |-> s]
                   ELSE UndoMoveAttempt(s, operation.new_path, operation.original_path)
    IN  IF ~Exists(s, operation.new_path) THEN [fs |-> s, success |-> FALSE]
        ELSE [fs |-> attempt.fs, success |-> ~attempt.raised]

\* variant: simulate mode answers before the two paths are looked at
_undo_move_operation_Unvalidated(s, operation, dry) ==
    LET attempt == UndoMoveAttempt(s, operation.new_path, operation.original_path)
    IN  IF dry THEN [fs |-> s, success |-> TRUE]
        ELSE IF ~Exists(s, operation.new_path) THEN [fs |-> s, success |-> FALSE]
        ELSE IF Exists(s, operation.original_path) THEN [fs |-> s, success |-> FALSE]
        ELSE [fs |-> attempt.fs, success |-> ~attempt.raised]

_undo_move_operation(s, operation, dry) ==
    LET attempt == IF dry THEN [raised |-> FALSE, fs |-> s]
                   ELSE UndoMoveAttempt(s, operation.new_path, operation.original_path)
    IN  IF ~Exists(s, operation.new_path) THEN [fs |-> s, success |-> FALSE]
        ELSE IF Exists(s, operation.original_path) THEN [fs |-> s, success |-> FALSE]
        ELSE [fs |-> attempt.fs, success |-> ~attempt.raised]

\* variant: the directory is removed with all it holds
_undo_create_dir_operation_Rmtree(s, operation, dry) ==
    LET dir_path == operation.new_path
    IN  IF ~Exists(s, dir_path) \/ dry THEN [fs |-> s, success |-> TRUE]
        ELSE [fs |-> [q \in {x \in DOMAIN s : ~HasPrefix(x, dir_path)} |-> s[q]],
              success |-> TRUE]

_undo_create_dir_operation(s, operation, dry) ==
    LET dir_path == operation.new_path
    IN  IF ~Exists(s, dir_path) THEN [fs |-> s, success |-> TRUE]
        ELSE IF dry THEN [fs |-> s, success |-> TRUE]
        \* iterdir() raises on a path that is no directory
        ELSE IF ~IsDir(s, dir_path) THEN [fs |-> s, success |-> FALSE]
        ELSE IF Children(s, dir_path) = {}
        THEN [fs |-> Rmdir(s, dir_path).fs, success |-> ~Rmdir(s, dir_path).raised]
        ELSE [fs |-> s, success |-> TRUE]

\* the body of the loop of undo_operations for one operation:
\* the filesystem after it, whether it counts as undone, and the entries it
\* adds to the error list
UndoOne(s, operation, dry) ==
    IF operation.operation_type = OpMove
    THEN [fs |-> _undo_move_operation(s, operation, dry).fs,
          success |-> _undo_move_operation(s, operation, dry).success,
          errors |-> << >>]
    ELSE IF operation.operation_type = OpCreateDir
    THEN [fs |-> _undo_create_dir_operation(s, operation, dry).fs,
          success |-> _undo_create_dir_operation(s, operation, dry).success,
          errors |-> << >>]
    ELSE [fs |-> s, success |-> FALSE, errors |-> <<"unsupported">>]

(***************************************************************************)
(* Texts of the matcher.  A text is a sequence of one-character strings,   *)
(* as a file name is.  The texts of the model are ASCII, on which the      *)
(* removal of diacritics (normalize.py:123-127) changes nothing.           *)
(***************************************************************************)
UpperLetters ==
    <<"A", "B", "C", "D", "E", "F", "G", "H", "I", "J", "K", "L", "M",
      "N", "O", "P", "Q", "R", "S", "T", "U", "V", "W", "X", "Y", "Z">>
LowerLetters ==
    <<"a", "b", "c", "d", "e", "f", "g", "h", "i", "j", "k", "l", "m",
      "n", "o", "p", "q", "r", "s", "t", "u", "v", "w", "x", "y", "z">>
Range(seq) == {seq[i] : i \in DOMAIN seq}

Max(x, y) == IF x >= y THEN x ELSE y
Min(x, y) == IF x <= y THEN x ELSE y
MaxOf(S) == CHOOSE x \in S : \A y \in S : y <= x
MinOf(S) == CHOOSE x \in S : \A y \in S : x <= y

\* str.lower()
LowerChar(c) ==
    IF \E i \in DOMAIN UpperLetters : UpperLetters[i] = c
    THEN LowerLetters[CHOOSE i \in DOMAIN UpperLetters : UpperLetters[i] = c]
    ELSE c
Lower(text) == [i \in 1..Len(text) |-> LowerChar(text[i])]

\* str.strip()
RECURSIVE Strip(_)
Strip(text) ==
    IF text = << >> THEN text
    ELSE IF Head(text) \in Whitespace THEN Strip(Tail(text))
    ELSE IF text[Len(text)] \in Whitespace THEN Strip(SubSeq(text, 1, Len(text) - 1))
    ELSE text

\* \w of the regular expressions
WordChars == Range(LowerLetters \o UpperLetters \o Digits \o <<"_">>)
IsWordChar(c) == c \in WordChars
IsDigits(text) ==
    text # << >> /\ \A i \in DOMAIN text : \E d \in DOMAIN Digits : text[i] = Digits[d]

\* needle in text
Contains(text, needle) ==
    \E i \in 1..(Len(text) - Len(needle) + 1) :
        SubSeq(text, i, i + Len(needle) - 1) = needle

\* the parts str.split(sep) cuts a text into, for every sep of seps in turn;
\* two separators in a row, or one at an end, leave an empty part
RECURSIVE SplitOn(_, _, _, _)
SplitOn(text, seps, cur, out) ==
    IF text = << >> THEN Append(out, cur)
    ELSE IF Head(text) \in seps THEN SplitOn(Tail(text), seps, << >>, Append(out, cur))
    ELSE SplitOn(Tail(text), seps, Append(cur, Head(text)), out)

\* text.split()
Words(text) == SelectSeq(SplitOn(text, Whitespace, << >>, << >>), LAMBDA w : w # << >>)

\* ' '.join(words)
RECURSIVE JoinWords(_)
JoinWords(words) ==
    IF words = << >> THEN << >>
    ELSE IF Len(words) = 1 THEN words[1]
    ELSE words[1] \o <<" ">> \o JoinWords(Tail(words))

(***************************************************************************)
(* CompanyNameNormalizer.                                                  *)
(***************************************************************************)

\* normalize.py:15-58, in the order of the compiled pattern (normalize.py:98-100):
\* longest form first, forms of one length in the order of the table
COMPANY_FORMS ==
    <<[form |-> <<"i", "n", "c", "o", "r", "p", "o", "r", "a", "t", "e", "d">>, norm |-> <<"i", "n", "c">>],
     [form |-> <<"c", "o", "r", "p", "o", "r", "a", "t", "i", "o", "n">>, norm |-> <<"c", "o", "r", "p">>],
     [form |-> <<"g", ".", "m", ".", "b", ".", "h", ".">>, norm |-> <<"g", "m", "b", "h">>],
     [form |-> <<"s", ".", "a", ".", "r", ".", "l", ".">>, norm |-> <<"s", "a", "r", "l">>],
     [form |-> <<"l", "i", "m", "i", "t", "e", "d">>, norm |-> <<"l", "t", "d">>],
     [form |-> <<"s", ".", "p", ".", "a", ".">>, norm |-> <<"s", "p", "a">>],
     [form |-> <<"s", ".", "r", ".", "l", ".">>, norm |-> <<"s", "r", "l">>],
     [form |-> <<"s", ".", "a", ".", "s", ".">>, norm |-> <<"s", "a", "s">>],
     [form |-> <<"s", ".", "n", ".", "c", ".">>, norm |-> <<"s", "n", "c">>],
     [form |-> <<"l", ".", "l", ".", "c", ".">>, norm |-> <<"l", "l", "c">>],
     [form |-> <<"s", ".", "p", ".", "a">>, norm |-> <<"s", "p", "a">>],
     [form |-> <<"s", ".", "r", ".", "l">>, norm |-> <<"s", "r", "l">>],
     [form |-> <<"s", ".", "a", ".", "s">>, norm |-> <<"s", "a", "s">>],
     [form |-> <<"s", ".", "n", ".", "c">>, norm |-> <<"s", "n", "c">>],
     [form |-> <<"c", "o", "r", "p", ".">>, norm |-> <<"c", "o", "r", "p">>],
     [form |-> <<"l", ".", "l", ".", "c">>, norm |-> <<"l", "l", "c">>],
     [form |-> <<"s", ".", "s", ".">>, norm |-> <<"s", "s">>],
     [form |-> <<"l", "t", "d", ".">>, norm |-> <<"l", "t", "d">>],
     [form |-> <<"i", "n", "c", ".">>, norm |-> <<"i", "n", "c">>],
     [form |-> <<"c", "o", "r", "p">>, norm |-> <<"c", "o", "r", "p">>],
     [form |-> <<"g", "m", "b", "h">>, norm |-> <<"g", "m", "b", "h">>],
     [form |-> <<"a", ".", "g", ".">>, norm |-> <<"a", "g">>],
     [form |-> <<"s", ".", "a", ".">>, norm |-> <<"s", "a">>],
     [form |-> <<"s", "a", "r", "l">>, norm |-> <<"s", "a", "r", "l">>],
     [form |-> <<"b", ".", "v", ".">>, norm |-> <<"b", "v">>],
     [form |-> <<"n", ".", "v", ".">>, norm |-> <<"n", "v">>],
     [form |-> <<"s", "p", "a">>, norm |-> <<"s", "p", "a">>],
     [form |-> <<"s", "r", "l">>, norm |-> <<"s", "r", "l">>],
     [form |-> <<"s", "a", "s">>, norm |-> <<"s", "a", "s">>],
     [form |-> <<"s", "n", "c">>, norm |-> <<"s", "n", "c">>],
     [form |-> <<"s", ".", "s">>, norm |-> <<"s", "s">>],
     [form |-> <<"l", "t", "d">>, norm |-> <<"l", "t", "d">>],
     [form |-> <<"i", "n", "c">>, norm |-> <<"i", "n", "c">>],
     [form |-> <<"l", "l", "c">>, norm |-> <<"l", "l", "c">>],
     [form |-> <<"s", "s">>, norm |-> <<"s", "s">>],
     [form |-> <<"a", "g">>, norm |-> <<"a", "g">>],
     [form |-> <<"s", "a">>, norm |-> <<"s", "a">>],
     [form |-> <<"b", "v">>, norm |-> <<"b", "v">>],
     [form |-> <<"n", "v">>, norm |-> <<"n", "v">>]>>

\* normalize.py:61-68
COMMON_WORDS ==
    {<<"b", "u", "s", "i", "n", "e", "s", "s">>, <<"c", "o">>, <<"c", "o",
     ".">>, <<"c", "o", "m", "p", "a", "n", "y">>, <<"c", "o", "n", "s", "u",
     "l", "e", "n", "z", "a">>, <<"c", "o", "n", "s", "u", "l", "t", "i", "n",
     "g">>, <<"d", "e", "v", "e", "l", "o", "p", "m", "e", "n", "t">>, <<"d",
     "i", "g", "i", "t", "a", "l">>, <<"e", "n", "t", "e", "r", "p", "r", "i",
     "s", "e">>, <<"e", "n", "t", "e", "r", "p", "r", "i", "s", "e", "s">>,
     <<"g", "l", "o", "b", "a", "l">>, <<"g", "r", "o", "u", "p">>, <<"g", "r",
     "u", "p", "p", "o">>, <<"h", "a", "r", "d", "w", "a", "r", "e">>, <<"h",
     "o", "l", "d", "i", "n", "g">>, <<"i", "n", "n", "o", "v", "a", "t", "i",
     "o", "n">>, <<"i", "n", "n", "o", "v", "a", "z", "i", "o", "n", "e">>,
     <<"i", "n", "t", "e", "r", "n", "a", "t", "i", "o", "n", "a", "l">>,
     <<"i", "n", "t", "e", "r", "n", "a", "z", "i", "o", "n", "a", "l", "e">>,
     <<"s", "e", "r", "v", "i", "c", "e", "s">>, <<"s", "e", "r", "v", "i",
     "z", "i">>, <<"s", "i", "s", "t", "e", "m", "i">>, <<"s", "o", "f", "t",
     "w", "a", "r", "e">>, <<"s", "o", "l", "u", "t", "i", "o", "n", "s">>,
     <<"s", "o", "l", "u", "z", "i", "o", "n", "i">>, <<"s", "v", "i", "l",
     "u", "p", "p", "o">>, <<"s", "y", "s", "t", "e", "m", "s">>, <<"t", "e",
     "c", "h">>, <<"t", "e", "c", "h", "n", "o", "l", "o", "g", "y">>, <<"t",
     "e", "c", "n", "o", "l", "o", "g", "i", "a">>, <<"w", "o", "r", "l", "d",
     "w", "i", "d", "e">>}

\* normalize.py:71-83
GENERIC_WORDS ==
    {<<"a", "r", "e", "a">>, <<"a", "s", "s", "e", "t", "s">>, <<"b", "a", "s",
     "e">>, <<"b", "u", "i", "l", "d">>, <<"c", "a", "m", "p", "i", "o", "n",
     "e">>, <<"c", "i", "t", "t", "a">>, <<"c", "i", "t", "y">>, <<"c", "o",
     "m", "p", "o", "n", "e", "n", "t">>, <<"c", "o", "m", "p", "o", "n", "e",
     "n", "t", "e">>, <<"c", "o", "n", "f", "i", "g">>, <<"c", "o", "n", "f",
     "i", "g", "u", "r", "a", "z", "i", "o", "n", "e">>, <<"c", "o", "r",
     "e">>, <<"d", "a", "t", "a">>, <<"d", "a", "t", "i">>, <<"d", "e", "m",
     "o">>, <<"d", "e", "t", "a", "i", "l">>, <<"d", "e", "t", "t", "a", "g",
     "l", "i", "o">>, <<"d", "i", "s", "t">>, <<"d", "o", "c", "u", "m", "e",
     "n", "t">>, <<"d", "o", "c", "u", "m", "e", "n", "t", "o">>, <<"e", "l",
     "e", "m", "e", "n", "t", "o">>, <<"e", "s", "e", "m", "p", "i", "o">>,
     <<"e", "x", "a", "m", "p", "l", "e">>, <<"f", "i", "l", "e">>, <<"h", "e",
     "l", "p", "e", "r">>, <<"h", "o", "m", "e">>, <<"i", "m", "p", "o", "s",
     "t", "a", "z", "i", "o", "n", "e">>, <<"i", "n", "d", "e", "x">>, <<"i",
     "n", "f", "o">>, <<"i", "n", "f", "o", "r", "m", "a", "t", "i", "o",
     "n">>, <<"i", "n", "f", "o", "r", "m", "a", "z", "i", "o", "n", "e">>,
     <<"i", "t", "e", "m">>, <<"l", "i", "b">>, <<"l", "i", "b", "r", "a", "r",
     "y">>, <<"l", "i", "b", "r", "e", "r", "i", "a">>, <<"l", "o", "c", "a",
     "t", "i", "o", "n">>, <<"m", "a", "i", "n">>, <<"m", "o", "d", "e", "l",
     "l", "o">>, <<"m", "o", "d", "u", "l", "e">>, <<"m", "o", "d", "u", "l",
     "e", "s">>, <<"m", "o", "d", "u", "l", "o">>, <<"n", "o", "d", "e">>,
     <<"o", "p", "t", "i", "o", "n">>, <<"o", "p", "z", "i", "o", "n", "e">>,
     <<"p", "a", "g", "e">>, <<"p", "a", "g", "i", "n", "a">>, <<"p", "l", "a",
     "c", "e">>, <<"p", "o", "s", "i", "z", "i", "o", "n", "e">>, <<"p", "o",
     "s", "t", "o">>, <<"p", "r", "i", "v", "a", "t", "e">>, <<"p", "u", "b",
     "l", "i", "c">>, <<"r", "a", "p", "p", "o", "r", "t", "o">>, <<"r", "e",
     "g", "i", "o", "n">>, <<"r", "e", "g", "i", "o", "n", "e">>, <<"r", "e",
     "p", "o", "r", "t">>, <<"r", "o", "o", "t">>, <<"s", "a", "m", "p", "l",
     "e">>, <<"s", "e", "t", "t", "i", "n", "g">>, <<"s", "i", "t", "e">>,
     <<"s", "i", "t", "o">>, <<"s", "o", "u", "r", "c", "e">>, <<"s", "r",
     "c">>, <<"s", "t", "a", "t", "i", "c">>, <<"s", "u", "p", "p", "o", "r",
     "t">>, <<"s", "u", "p", "p", "o", "r", "t", "o">>, <<"t", "e", "m", "p",
     "l", "a", "t", "e">>, <<"t", "e", "s", "t">>, <<"t", "o", "w", "n">>,
     <<"u", "t", "i", "l">>, <<"u", "t", "i", "l", "i", "t", "y">>, <<"u", "t",
     "i", "l", "s">>, <<"z", "o", "n", "a">>, <<"z", "o", "n", "e">>}

\* core.py:226-228: the company forms _is_valid_single_word_match refuses
StandaloneForms ==
    {<<"s", "p", "a">>, <<"s", ".", "p", ".", "a">>, <<"s", ".", "p", ".", "a",
     ".">>, <<"s", "r", "l">>, <<"s", ".", "r", ".", "l">>, <<"s", ".", "r",
     ".", "l", ".">>, <<"s", "a", "s">>, <<"s", ".", "a", ".", "s">>, <<"s",
     ".", "a", ".", "s", ".">>, <<"s", "n", "c">>, <<"s", ".", "n", ".", "c">>,
     <<"s", ".", "n", ".", "c", ".">>, <<"l", "t", "d">>, <<"i", "n", "c">>,
     <<"c", "o", "r", "p">>, <<"l", "l", "c">>, <<"g", "m", "b", "h">>, <<"a",
     "g">>, <<"s", "a">>, <<"b", "v">>, <<"n", "v">>}

FormValues == {COMPANY_FORMS[k].norm : k \in DOMAIN COMPANY_FORMS}

\* \b before position i of text
WordAt(text, i) == i >= 1 /\ i <= Len(text) /\ IsWordChar(text[i])
Boundary(text, i) == WordAt(text, i - 1) # WordAt(text, i)

\* the forms of the pattern that match at position i, between two \b
FormsAt(text, i) ==
    IF ~Boundary(text, i) THEN {}
    ELSE {k \in DOMAIN COMPANY_FORMS :
             /\ i + Len(COMPANY_FORMS[k].form) - 1 <= Len(text)
             /\ text[i] = COMPANY_FORMS[k].form[1]
             /\ SubSeq(text, i, i + Len(COMPANY_FORMS[k].form) - 1) = COMPANY_FORMS[k].form
             /\ Boundary(text, i + Len(COMPANY_FORMS[k].form))}

\* company_forms_pattern.sub(replace_form, text): leftmost match first, and
\* at one position the first alternative of the pattern that matches
RECURSIVE SubForms(_, _, _)
SubForm(text, i, out, forms) ==
    IF forms = {} THEN SubForms(text, i + 1, Append(out, text[i]))
    ELSE SubForms(text, i + Len(COMPANY_FORMS[MinOf(forms)].form),
                  out \o COMPANY_FORMS[MinOf(forms)].norm)
SubForms(text, i, out) ==
    IF i > Len(text) THEN out ELSE SubForm(text, i, out, FormsAt(text, i))

_normalize_company_forms(text) == SubForms(text, 1, << >>)

\* special_chars_pattern.sub(' ', text)
SubSpecial(text) ==
    [i \in 1..Len(text) |->
        IF IsWordChar(text[i]) \/ text[i] \in Whitespace THEN text[i] ELSE " "]

normalize(text) ==
    IF text = << >> THEN << >>
    ELSE JoinSplit(SubSpecial(_normalize_company_forms(Strip(Lower(text)))), 1, << >>)

_remove_company_forms(text) ==
    JoinWords(SelectSeq(Words(text), LAMBDA w : w \notin FormValues))

_remove_common_words(text) ==
    JoinWords(SelectSeq(Words(text), LAMBDA w : w \notin COMMON_WORDS))

\* list(dict.fromkeys(alias for alias in aliases if alias.strip()))
RECURSIVE Distinct(_, _)
Distinct(seq, out) ==
    IF seq = << >> THEN out
    ELSE IF Head(seq) \in Range(out) \/ Strip(Head(seq)) = << >>
         THEN Distinct(Tail(seq), out)
         ELSE Distinct(Tail(seq), Append(out, Head(seq)))

\* the steps of generate_aliases on the normalized name: an alias is
\* appended when it differs from the name, the one without forms and
\* without common words when the list does not have it, the acronym (a
\* letter of each word, so as long as the words are many) when the name has
\* two words or more
AppendOther(aliases, alias, normalized) ==
    IF alias # normalized THEN Append(aliases, alias) ELSE aliases
AppendNew(aliases, alias) ==
    IF alias \notin Range(aliases) THEN Append(aliases, alias) ELSE aliases
AppendAcronym(aliases, words) ==
    IF Len(words) > 1 THEN Append(aliases, [i \in 1..Len(words) |-> words[i][1]])
    ELSE aliases
AliasesOf(normalized) ==
    Distinct(
        AppendAcronym(
            AppendNew(
                AppendOther(
                    AppendOther(<<normalized>>, _remove_company_forms(normalized),
                                normalized),
                    _remove_common_words(normalized), normalized),
                _remove_common_words(_remove_company_forms(normalized))),
            Words(normalized)),
        << >>)

generate_aliases(company_name) == AliasesOf(normalize(company_name))

\* filename.rsplit('.', 1)[0]
RsplitDot(filename) ==
    IF LastDot(filename) = 0 THEN filename ELSE SubSeq(filename, 1, LastDot(filename) - 1)

\* the two date patterns with separators, on the parts between them: three
\* runs of digits of lengths 1-2, 1-2, 2-4 or 4, 1-2, 1-2
IsDateParts(p) ==
    /\ Len(p) = 3
    /\ \A i \in 1..3 : IsDigits(p[i])
    /\ \/ Len(p[1]) \in 1..2 /\ Len(p[2]) \in 1..2 /\ Len(p[3]) \in 2..4
       \/ Len(p[1]) = 4 /\ Len(p[2]) \in 1..2 /\ Len(p[3]) \in 1..2
IsSeparatedDate(text) == IsDateParts(SplitOn(text, {"/", "-"}, << >>, << >>))

\* float(text.replace(',', '.')) on a text of letters and digits: digits, or
\* digits with an exponent, or a name of infinity or of not-a-number
FloatParses(text) ==
    \/ IsDigits(text)
    \/ \E i \in 2..(Len(text) - 1) :
          /\ text[i] = "e"
          /\ IsDigits(SubSeq(text, 1, i - 1))
          /\ IsDigits(SubSeq(text, i + 1, Len(text)))
    \/ text \in {<<"i", "n", "f">>, <<"n", "a", "n">>,
                 <<"i", "n", "f", "i", "n", "i", "t", "y">>}

_is_date_or_number(text) ==
    IsSeparatedDate(text) \/ IsDigits(text) \/ FloatParses(text)

_is_generic_word(text) == Strip(Lower(text)) \in GENERIC_WORDS

\* the filter of CompanyNameNormalizer.extract_company_names_from_filename
FilteredParts(parts) ==
    SelectSeq([i \in 1..Len(parts) |-> Strip(parts[i])],
              LAMBDA part : /\ Len(part) >= 3
                            /\ ~_is_date_or_number(part)
                            /\ ~_is_generic_word(part))

\* CompanyNameNormalizer.extract_company_names_from_filename
NameParts(filename) ==
    FilteredParts(SplitOn(normalize(RsplitDot(filename)), {"-", "_", " ", "."},
                          << >>, << >>))

(***************************************************************************)
(* rapidfuzz.fuzz, as core.py calls it.  A score is a number of hundredths *)
(* of a point, rounded down: the scores of texts this short differ by more *)
(* than a hundredth when they differ, and the thresholds are whole points. *)
(***************************************************************************)
\* one point of a score
Point == 100

\* The row of the table of longest common subsequences for character c,
\* from the row above; entry j + 1 is that of column j.  The character is
\* left out, or it is matched with its last occurrence in b up to column j.
LcsRow(c, b, above) ==
    SubSeq([col \in 1..(Len(b) + 1) |->
               LET hits == {k \in 1..(col - 1) : b[k] = c}
               IN  IF hits = {} THEN above[col]
                   ELSE Max(above[col], above[MaxOf(hits)] + 1)],
           1, Len(b) + 1)
\* the last row of the table for the first i characters of a
RECURSIVE LcsTable(_, _, _)
LcsTable(a, b, i) ==
    IF i = 0 THEN [col \in 1..(Len(b) + 1) |-> 0]
    ELSE LcsRow(a[i], b, LcsTable(a, b, i - 1))
\* the length of the longest common subsequence of a and b
Lcs(a, b) == LcsTable(a, b, Len(a))[Len(b) + 1]

\* fuzz.ratio: the normalized indel similarity
ratio(a, b) ==
    IF Len(a) + Len(b) = 0 THEN 100 * Point
    ELSE (200 * Point * Lcs(a, b)) \div (Len(a) + Len(b))

\* the best ratio of needle with a window of hay of its length, the windows
\* that hang over either end of hay included
PartialWindows(needle, hay) ==
    {SubSeq(hay, Max(i, 1), Min(i + Len(needle) - 1, Len(hay))) :
        i \in (2 - Len(needle))..Len(hay)}
PartialOf(needle, hay) == MaxOf({ratio(needle, w) : w \in PartialWindows(needle, hay)})

\* fuzz.partial_ratio: the shorter text is the needle; of two texts of one
\* length each is tried as the needle
partial_ratio(a, b) ==
    IF a = << >> \/ b = << >> THEN (IF a = b THEN 100 * Point ELSE 0)
    ELSE IF Len(a) < Len(b) THEN PartialOf(a, b)
    ELSE IF Len(b) < Len(a) THEN PartialOf(b, a)
    ELSE Max(PartialOf(a, b), PartialOf(b, a))

\* the order of Python on the characters of a normalized text
CodeOrder == Digits \o UpperLetters \o <<"_">> \o LowerLetters
Code(c) == CHOOSE i \in DOMAIN CodeOrder : CodeOrder[i] = c
RECURSIVE WordLess(_, _)
WordLess(u, v) ==
    IF v = << >> THEN FALSE
    ELSE IF u = << >> THEN TRUE
    ELSE IF Head(u) # Head(v) THEN Code(Head(u)) < Code(Head(v))
    ELSE WordLess(Tail(u), Tail(v))

\* sorted(words)
RECURSIVE SortWords(_)
SortWords(S) ==
    IF S = {} THEN << >>
    ELSE LET w == CHOOSE w \in S : \A v \in S : v = w \/ WordLess(w, v)
         IN  <<w>> \o SortWords(S \ {w})
RECURSIVE SortedList(_)
SortedList(words) ==
    IF words = << >> THEN << >>
    ELSE LET least == CHOOSE i \in DOMAIN words :
                          \A j \in DOMAIN words : ~WordLess(words[j], words[i])
         IN  <<words[least]>> \o
             SortedList([k \in 1..(Len(words) - 1) |->
                            IF k < least THEN words[k] ELSE words[k + 1]])

\* fuzz.token_sort_ratio
token_sort_ratio(a, b) ==
    ratio(JoinWords(SortedList(Words(a))), JoinWords(SortedList(Words(b))))

\* fuzz.token_set_ratio: the words both texts have, and those only one has
SetRatio(sect, diff_ab, diff_ba) ==
    IF sect = << >> THEN ratio(diff_ab, diff_ba)
    ELSE IF diff_ab = << >> \/ diff_ba = << >> THEN 100 * Point
    ELSE MaxOf({ratio(sect \o <<" ">> \o diff_ab, sect \o <<" ">> \o diff_ba),
                ratio(sect, sect \o <<" ">> \o diff_ab),
                ratio(sect, sect \o <<" ">> \o diff_ba)})
TokenSets(tokens_a, tokens_b) ==
    IF tokens_a = {} \/ tokens_b = {} THEN 0
    ELSE SetRatio(JoinWords(SortWords(tokens_a \cap tokens_b)),
                  JoinWords(SortWords(tokens_a \ tokens_b)),
                  JoinWords(SortWords(tokens_b \ tokens_a)))
token_set_ratio(a, b) == TokenSets(Range(Words(a)), Range(Words(b)))

(***************************************************************************)
(* CompanyConfig and CompanyMatcher.  A matcher is its threshold, its      *)
(* configuration (the companies of the YAML file, in order) and            *)
(* company_aliases, a dict: the companies in the order they were added,    *)
(* each with its list of aliases.                                           *)
(***************************************************************************)
\* find_best_match's None; a company with the empty name is as false as None
\* where the code tests "if company"
None == << >>

\* the entry of a company in the configuration, or an entry without rules
CompanyData(config, company_name) ==
    IF \E i \in DOMAIN config : config[i].name = company_name
    THEN config[CHOOSE i \in DOMAIN config : config[i].name = company_name]
    ELSE [name |-> company_name, aliases |-> << >>, required_keywords |-> << >>,
          excluded_standalone |-> << >>]

\* the rules of CompanyConfig.is_valid_match on the entry of the company
RulesHold(data, matched_text, full_text) ==
    /\ data.required_keywords # << >> =>
          \E k \in DOMAIN data.required_keywords :
              Contains(Lower(full_text), Lower(data.required_keywords[k]))
    /\ Strip(Lower(matched_text)) \notin
          {Lower(data.excluded_standalone[k]) : k \in DOMAIN data.excluded_standalone}

is_valid_match(config, company_name, matched_text, full_text) ==
    RulesHold(CompanyData(config, company_name), matched_text, full_text)

\* the aliases add_company stores: a set, so a list in any order
AllAliases(company_name, aliases) ==
    Range(generate_aliases(company_name))
        \cup {normalize(alias) : alias \in Range(aliases) \cup {company_name}}

\* the score of one alias from the best of the four scorers: 100 for the
\* alias itself, ten points more (100 at most) when one text lies within
\* the other
Adjusted(normalized_text, alias, score) ==
    IF normalized_text = alias THEN 100 * Point
    ELSE IF Contains(normalized_text, alias) \/ Contains(alias, normalized_text)
         THEN Min(score + 10 * Point, 100 * Point)
         ELSE score
Scored(normalized_text, alias) ==
    Adjusted(normalized_text, alias,
             MaxOf({ratio(normalized_text, alias),
                    partial_ratio(normalized_text, alias),
                    token_sort_ratio(normalized_text, alias),
                    token_set_ratio(normalized_text, alias)}))

(***************************************************************************)
(* The matchers and the files of the model.                                *)
(***************************************************************************)
\* questions put to the matcher in one behaviour
MaxQueries == 1

Thresholds == {85 * Point, 92 * Point, 100 * Point}

\* company_config.py:53-65: the configuration when there is no YAML file
DefaultConfig ==
    <<[name |-> <<"A", "r", "e", "a", " ", "F", "i", "n", "a", "n", "z", "a", " ",
                  "S", "p", "a">>,
       aliases |->
           <<<<"A", "r", "e", "a", " ", "F", "i", "n", "a", "n", "z", "a">>,
             <<"A", "r", "e", "a", "F", "i", "n", "a", "n", "z", "a">>,
             <<"A", "r", "e", "a", " ", "F", "i", "n", "a", "n", "z", "a", " ",
               "S", ".", "p", ".", "A", ".">>,
             <<"A", "r", "e", "a", " ", "F", "i", "n", "a", "n", "z", "a", " ",
               "S", "p", "A">>,
             <<"A", "R", "E", "A", " ", "F", "I", "N", "A", "N", "Z", "A", " ",
               "S", "P", "A">>>>,
       required_keywords |-> <<<<"f", "i", "n", "a", "n", "z", "a">>>>,
       excluded_standalone |->
           <<<<"a", "r", "e", "a">>, <<"s", "p", "a">>, <<"s", ".", "p", ".", "a">>>>]>>

\* a YAML file with one company that has two required keywords
RuledConfig ==
    <<[name |-> <<"T", "a", "u", " ", "K", "a", "p", "p", "a">>,
       aliases |-> <<<<"T", "a", "u">>>>,
       required_keywords |-> <<<<"t", "a", "u">>, <<"k", "a", "p", "p", "a">>>>,
       excluded_standalone |-> <<<<"t", "a", "u">>>>]>>

Configs == {DefaultConfig, RuledConfig}

\* the companies a caller adds with add_company, without aliases of its own
Kapx == <<"K", "a", "p", "x", " ", "1", "2", "3", "4", "5">>
Kappa == <<"K", "a", "p", "p", "a">>
AddedCompanies == {Kapx, Kappa}

\* the files the matcher is asked about
QueryDir == <<<<"i", "n">>>>
QueryPaths ==
    {Append(QueryDir, <<"k", "a", "p", "p", " ", "1", "2", "3", "4", "5">>),
     Append(QueryDir, <<"a", "f", "s">>),
     Append(QueryDir, <<"t", "k">>),
     Append(QueryDir, <<"t", "a", "u">>),
     Append(QueryDir, <<"t", "a", "u", " ", "k", "a", "p", "p">>),
     Append(QueryDir, <<"k", "a", "p", "p", "a">>),
     Append(QueryDir, <<"K", "a", "p", "p", "a", "_", "A", "r", "e", "a", "-",
                        "F", "i", "n", "a", "n", "z", "a", ".", "p", "d", "f">>),
     <<<<"K", "a", "p", "p", "a">>, <<"2", "0", "2", "4">>, <<"x", ".", "t", "x", "t">>>>}

\* the runs of 2 to 4 adjacent parts, in the order of the two loops
RECURSIVE Combos(_, _, _)
Combos(parts, i, n) ==
    IF i > Len(parts) THEN << >>
    ELSE IF n > 4 \/ i + n - 1 > Len(parts) THEN Combos(parts, i + 1, 2)
    ELSE <<JoinWords(SubSeq(parts, i, i + n - 1))>> \o Combos(parts, i, n + 1)

\* The scores of the texts of the model, computed once: the texts the
\* matcher scores for a name are the name, its parts and the runs of its
\* parts, normalized; the aliases are those of the companies of the model.
AskedOfParts(name, parts) ==
    {normalize(t) : t \in {name} \cup Range(parts) \cup Range(Combos(parts, 1, 2))}
AskedOf(name) == AskedOfParts(name, NameParts(name))
AskedTexts == UNION {AskedOf(name) : name \in UNION {Range(p) : p \in QueryPaths}}
KnownCompanies ==
    {<<company.name, company.aliases>> :
        company \in UNION {Range(config) : config \in Configs}}
        \cup {<<company_name, << >>>> : company_name \in AddedCompanies}
KnownAliases == UNION {AllAliases(known[1], known[2]) : known \in KnownCompanies}
ScoreTable ==
    {[text |-> text, alias |-> alias, score |-> Scored(text, alias)] :
        text \in AskedTexts, alias \in KnownAliases}

\* max(scores) with its bonus, for a text and an alias of the model
AliasScore(normalized_text, alias) ==
    (CHOOSE row \in ScoreTable : row.text = normalized_text /\ row.alias = alias).score


\* the aliases of every company, in the order of the two loops of find_best_match
RECURSIVE AliasPairs(_)
AliasPairs(company_aliases) ==
    IF company_aliases = << >> THEN << >>
    ELSE [k \in DOMAIN Head(company_aliases).aliases |->
             <<Head(company_aliases).name, Head(company_aliases).aliases[k]>>]
         \o AliasPairs(Tail(company_aliases))

NoMatch == [company |-> None, score |-> 0, matched_text |-> << >>]

\* the inner loop with a threshold the score has to exceed
Tried_StrictThreshold(m, normalized_text, company_name, alias, score, best) ==
    IF /\ alias # << >>
       /\ score > best.score
       /\ score > m.threshold
       /\ is_valid_match(m.config, company_name, alias, normalized_text)
    THEN [company |-> company_name, score |-> score, matched_text |-> alias]
    ELSE best

\* one turn of the inner loop of find_best_match: the best match after the
\* alias, scored, has been tried
Tried(m, normalized_text, company_name, alias, score, best) ==
    IF /\ alias # << >>
       /\ score > best.score
       /\ score >= m.threshold
       /\ is_valid_match(m.config, company_name, alias, normalized_text)
    THEN [company |-> company_name, score |-> score, matched_text |-> alias]
    ELSE best

\* the loops of find_best_match over the aliases still to try
RECURSIVE BestMatch(_, _, _, _)
BestMatch(m, normalized_text, pairs, best) ==
    IF pairs = << >> THEN best
    ELSE BestMatch(m, normalized_text, Tail(pairs),
                   Tried(m, normalized_text, Head(pairs)[1], Head(pairs)[2],
                         AliasScore(normalized_text, Head(pairs)[2]), best))

\* find_best_match from the normalized text on
BestOf(m, normalized_text) ==
    IF normalized_text = << >> THEN NoMatch
    ELSE BestMatch(m, normalized_text, AliasPairs(m.company_aliases), NoMatch)

find_best_match(m, text) ==
    IF m.company_aliases = << >> THEN NoMatch ELSE BestOf(m, normalize(text))

\* core.py:226-228 and what follows, on word.lower().strip()
IsValidWord(word_lower) ==
    /\ word_lower \notin StandaloneForms
    /\ word_lower \notin GENERIC_WORDS
    /\ Len(word_lower) >= 3
_is_valid_single_word_match(word) == IsValidWord(Strip(Lower(word)))

\* "if company and score >= self.threshold: matches.append(...)"
Kept(m, match) ==
    IF match.company # None /\ match.score >= m.threshold THEN <<match>> ELSE << >>

\* the matches of the texts, in order: those find_best_match names a company
\* for, at or above the threshold
RECURSIVE Found(_, _)
Found(m, texts) ==
    IF texts = << >> THEN << >>
    ELSE Kept(m, find_best_match(m, Head(texts))) \o Found(m, Tail(texts))

\* the dict unique_matches: a company keeps the place of its first match
\* and the first of its highest scores
Merged(out, match) ==
    IF \E k \in DOMAIN out : out[k].company = match.company
    THEN [k \in DOMAIN out |->
             IF out[k].company = match.company /\ match.score > out[k].score
             THEN match ELSE out[k]]
    ELSE Append(out, match)
RECURSIVE Unique(_, _)
Unique(matches, out) ==
    IF matches = << >> THEN out
    ELSE Unique(Tail(matches), Merged(out, Head(matches)))

\* result.sort(key=score, reverse=True): highest score first, equal scores
\* in the order they had
Top(matches) ==
    CHOOSE i \in DOMAIN matches :
        \A j \in DOMAIN matches :
            \/ matches[j].score < matches[i].score
            \/ matches[j].score = matches[i].score /\ i <= j
Without(matches, i) ==
    [k \in 1..(Len(matches) - 1) |-> IF k < i THEN matches[k] ELSE matches[k + 1]]
RECURSIVE SortByScore(_)
SortByScore(matches) ==
    IF matches = << >> THEN << >>
    ELSE <<matches[Top(matches)]>> \o SortByScore(Without(matches, Top(matches)))

Scores(matches) == {matches[k].score : k \in DOMAIN matches}
Companies(matches) == {matches[k].company : k \in DOMAIN matches}

\* priority 2 of extract_company_names_from_filename: the runs of parts
SecondTier(m, matches, parts) ==
    IF Len(parts) > 1 THEN matches \o Found(m, Combos(parts, 1, 2)) ELSE matches

\* priority 3: the single parts, when no match is five points above the threshold
ThirdTier(m, matches, parts) ==
    IF matches = << >> \/ MaxOf(Scores(matches)) < m.threshold + 5 * Point
    THEN matches \o Found(m, SelectSeq(parts, _is_valid_single_word_match))
    ELSE matches

\* priority 1 without its return: the runs and the single parts are tried
\* whatever the whole name scores
Tiers_NoReturn(m, first, parts) ==
    SortByScore(Unique(ThirdTier(m, SecondTier(m, first, parts), parts), << >>))

\* extract_company_names_from_filename after priority 1, whose matches are
\* first: the whole name alone when it scores 95
Tiers(m, first, parts) ==
    IF first # << >> /\ first[1].score >= 95 * Point THEN first
    ELSE SortByScore(Unique(ThirdTier(m, SecondTier(m, first, parts), parts), << >>))

extract_company_names_from_filename(m, filename) ==
    Tiers(m, Kept(m, find_best_match(m, filename)), NameParts(filename))

\* the parts of the directories of a path, the file name left out
RECURSIVE PathParts(_)
PathParts(dirs) ==
    IF dirs = << >> THEN << >> ELSE NameParts(Head(dirs)) \o PathParts(Tail(dirs))

\* min(score + 15, 100.0) on every match of the file name
Boosted(matches) ==
    [k \in DOMAIN matches |->
        [matches[k] EXCEPT !.score = Min(@ + 15 * Point, 100 * Point)]]

\* variant: the matches of the path keep their scores
Penalized_NoPenalty(m, matches) ==
    SelectSeq(matches, LAMBDA match : match.score >= m.threshold)

\* max(score - 10, 0) on every match of the path, kept at or above the threshold
Penalized(m, matches) ==
    SelectSeq([k \in DOMAIN matches |->
                  [matches[k] EXCEPT !.score = Max(@ - 10 * Point, 0)]],
              LAMBDA match : match.score >= m.threshold)

\* extract_company_names_from_path once the file name has its matches: the
\* parts of the path are tried only when the file name has none
Combined(m, boosted_filename_matches, dirs) ==
    SortByScore(Unique(boosted_filename_matches
                           \o (IF boosted_filename_matches = << >>
                               THEN Penalized(m, Found(m, PathParts(dirs)))
                               ELSE << >>),
                       << >>))

extract_company_names_from_path(m, file_path) ==
    Combined(m, Boosted(extract_company_names_from_filename(m, Basename(file_path))),
             Parent(file_path))

(***************************************************************************)
(* The state.                                                              *)
(***************************************************************************)
VARIABLES
    fs,             \* the filesystem
    csv,            \* the log file: whether it exists, and its lines
    dry_run,        \* FileOrganizer.dry_run
    logger,         \* FileOrganizer.logger is set
    last,           \* the last call that returned, and what it returned
    calls,          \* FileOrganizer calls made so far
    moved,          \* file -> the final path its latest real move_file returned
    clean,          \* every change of the filesystem so far is a row of the log
    upc,            \* undo_operations: "idle", "loop", "done" or "raised"
    undo_dry,       \* UndoManager.dry_run
    queue,          \* successful_operations still to process
    undone_count,
    error_count,
    errors,
    processed,      \* the operations the loop has processed, in order
    fs0,            \* the filesystem when undo_operations was called
    clean0,         \* clean, when undo_operations was called
    origin,         \* the filesystem the behaviour started from
    run,            \* organize_files: where the call stands, and its result
    matcher         \* CompanyMatcher, the file it is asked about, the questions so far

vars == <<fs, csv, dry_run, logger, last, calls, moved, clean, upc, undo_dry,
          queue, undone_count, error_count, errors, processed, fs0, clean0, origin, run,
          matcher>>
organizerVars == <<dry_run, logger>>
undoVars == <<upc, undo_dry, queue, undone_count, error_count, errors, processed,
              fs0, clean0>>

\* The trees a run may start from: two files of the same name,
\*   in two input directories;
\*   one in an input directory, one in the output directory, where it stands
\*   at the path of the company directory;
\*   one in an input directory, one already in the organized tree.
TreeWith(dirs, p1, p2) ==
    [q \in dirs \cup {p1, p2} |-> IF q = p1 THEN F1 ELSE IF q = p2 THEN F2 ELSE Dir]
InitTrees ==
    {TreeWith({Root, InDir, InDir2}, Append(InDir, NameCo), Append(InDir2, NameCo)),
     TreeWith({Root, InDir, OutDir}, Append(InDir, NameCo), Append(OutDir, NameCo)),
     TreeWith(Prefixes(LeafDir) \cup {InDir}, Append(InDir, NameCo),
              Append(LeafDir, NameCo))}

\* OrganizationResult as organize_files builds it
NoResult ==
    [total_files |-> 0, processed_files |-> 0, successful_moves |-> 0,
     failed_moves |-> 0, skipped_files |-> 0, matches |-> << >>, errors |-> << >>]

\* no organize_files call has been made
NoRun ==
    [pc |-> "idle", root |-> Root, todo |-> << >>, dest |-> Root, pending |-> << >>,
     ok |-> FALSE, raised |-> FALSE, performed |-> << >>, lost |-> 0,
     result |-> NoResult, raisedToCaller |-> FALSE, cancelled |-> FALSE]

\* no CompanyMatcher has been made
NoMatcher ==
    [threshold |-> 0, config |-> << >>, company_aliases |-> << >>, file_path |-> Root,
     queries |-> 0]

NoCall ==
    [op |-> "none", source |-> Root, dest |-> Root, ok |-> FALSE, path |-> Root,
     raised |-> FALSE, dry |-> FALSE, attached |-> FALSE]

Init ==
    /\ fs \in InitTrees
    /\ csv = NoFile
    \* FileOrganizer.__init__: dry_run as given, no logger yet
    /\ dry_run \in BOOLEAN
    /\ logger = FALSE
    /\ last = NoCall
    /\ calls = 0
    /\ moved = << >>
    /\ clean = TRUE
    /\ upc = "idle"
    /\ undo_dry = FALSE
    /\ queue = << >>
    /\ undone_count = 0
    /\ error_count = 0
    /\ errors = << >>
    /\ processed = << >>
    /\ fs0 = fs
    /\ clean0 = TRUE
    /\ origin = fs
    /\ run = NoRun
    /\ matcher = NoMatcher

Timestamps == 1..MaxClock
\* move_file is given files the scanner found, or a path that is gone
Sources(s) == FilePaths(s) \cup {MissingSource}
DestDirs == {OutDir, LeafDir}

\* the files that are where they were
Unmoved(s, t) == {f \in FileIds : Where(s, f) = Where(t, f)}
Restrict(f, S) == [x \in DOMAIN f \cap S |-> f[x]]

(***************************************************************************)
(* FileOrganizer.                                                          *)
(***************************************************************************)
\* FileOrganizer.set_logger
SetLogger ==
    /\ upc = "idle"
    /\ logger' = TRUE
    /\ UNCHANGED <<fs, csv, dry_run, last, calls, moved, clean>>
    /\ UNCHANGED undoVars
    /\ UNCHANGED <<origin, run, matcher>>

CreateDirectoryStructure(ts) ==
    /\ upc = "idle"
    /\ calls < MaxCalls
    /\ LET r == create_directory_structure(fs, csv, dry_run, logger, OutDir, NameCo,
                                           NameYear, NameCategory, ts)
       IN  /\ fs' = r.fs
           /\ csv' = r.csv
           /\ last' = [op |-> "create_directory_structure", source |-> Root,
                       dest |-> OutDir, ok |-> ~r.raised, path |-> r.path,
                       raised |-> r.raised, dry |-> dry_run, attached |-> logger]
           /\ clean' = (clean /\ (r.fs = fs \/ logger))
    /\ calls' = calls + 1
    /\ UNCHANGED <<moved, organizerVars>>
    /\ UNCHANGED undoVars
    /\ UNCHANGED <<origin, run, matcher>>

MoveFile(source, dest_dir, ts) ==
    /\ upc = "idle"
    /\ calls < MaxCalls
    /\ \E r \in {move_file(fs, csv, dry_run, logger, source, dest_dir, ts)} :
           /\ fs' = r.fs
           /\ csv' = r.csv
           /\ last' = [op |-> "move_file", source |-> source, dest |-> dest_dir,
                       ok |-> r.ok, path |-> r.path, raised |-> r.raised,
                       dry |-> dry_run, attached |-> logger]
           /\ moved' = IF r.ok /\ ~dry_run
                       THEN (fs[source] :> r.path) @@ moved
                       ELSE moved
           /\ clean' = (clean /\ (r.fs = fs \/ (logger /\ r.ok)))
    /\ calls' = calls + 1
    /\ UNCHANGED organizerVars
    /\ UNCHANGED undoVars
    /\ UNCHANGED <<origin, run, matcher>>

(***************************************************************************)
(* UndoManager.undo_operations: the load, one step per operation, the      *)
(* return.  Nothing else runs while it runs.                               *)
(***************************************************************************)
UndoStart(d) ==
    /\ upc = "idle"
    /\ undo_dry' = d
    /\ fs0' = fs
    /\ clean0' = clean
    /\ IF csv.exists
       THEN /\ upc' = "loop"
            /\ queue' = SuccessfulOperations(load_operations_from_csv(csv))
       ELSE \* load_operations_from_csv raises FileNotFoundError
            /\ upc' = "raised"
            /\ queue' = << >>
    /\ undone_count' = 0
    /\ error_count' = 0
    /\ errors' = << >>
    /\ processed' = << >>
    /\ UNCHANGED <<fs, csv, last, calls, moved, clean, organizerVars, origin, run, matcher>>

\* variant: the loop gives up at the first record that fails
UndoStep_StopOnFailure ==
    /\ upc = "loop"
    /\ queue # << >>
    /\ LET r == UndoOne(fs, Head(queue), undo_dry)
       IN  /\ fs' = r.fs
           /\ undone_count' = IF r.success THEN undone_count + 1 ELSE undone_count
           /\ error_count' = IF r.success THEN error_count ELSE error_count + 1
           /\ errors' = errors \o r.errors
           /\ moved' = Restrict(moved, Unmoved(fs, r.fs))
           /\ clean' = (clean /\ r.fs = fs)
           /\ queue' = IF r.success THEN Tail(queue) ELSE << >>
    /\ processed' = Append(processed, Head(queue))
    /\ UNCHANGED <<csv, last, calls, upc, undo_dry, fs0, clean0, organizerVars, origin, run, matcher>>

UndoStep ==
    /\ upc = "loop"
    /\ queue # << >>
    /\ LET r == UndoOne(fs, Head(queue), undo_dry)
       IN  /\ fs' = r.fs
           /\ undone_count' = IF r.success THEN undone_count + 1 ELSE undone_count
           /\ error_count' = IF r.success THEN error_count ELSE error_count + 1
           /\ errors' = errors \o r.errors
           /\ moved' = Restrict(moved, Unmoved(fs, r.fs))
           /\ clean' = (clean /\ r.fs = fs)
    /\ processed' = Append(processed, Head(queue))
    /\ queue' = Tail(queue)
    /\ UNCHANGED <<csv, last, calls, upc, undo_dry, fs0, clean0, organizerVars, origin, run, matcher>>

UndoFinish ==
    /\ upc = "loop"
    /\ queue = << >>
    /\ upc' = "done"
    /\ UNCHANGED <<fs, csv, last, calls, moved, clean, organizerVars, origin, run, matcher>>
    /\ UNCHANGED <<undo_dry, queue, undone_count, error_count, errors, processed,
                   fs0, clean0>>

\* the caller has the result (or the exception); the manager is idle again
UndoReturn ==
    /\ upc \in {"done", "raised"}
    /\ upc' = "idle"
    /\ undo_dry' = FALSE
    /\ queue' = << >>
    /\ undone_count' = 0
    /\ error_count' = 0
    /\ errors' = << >>
    /\ processed' = << >>
    /\ fs0' = origin
    /\ clean0' = TRUE
    \* the last call made is now this one
    /\ last' = [NoCall EXCEPT !.op = "undo_operations", !.ok = (upc = "done"),
                              !.raised = (upc = "raised"), !.dry = undo_dry]
    /\ UNCHANGED <<fs, csv, calls, moved, clean, organizerVars, origin, run, matcher>>

Next ==
    \/ SetLogger
    \/ \E ts \in Timestamps : CreateDirectoryStructure(ts)
    \/ \E source \in Sources(fs), dest_dir \in DestDirs, ts \in Timestamps :
          MoveFile(source, dest_dir, ts)
    \/ \E d \in BOOLEAN : UndoStart(d)
    \/ UndoStep
    \/ UndoFinish
    \/ UndoReturn

Spec == Init /\ [][Next]_vars

(***************************************************************************)
(* The log is an interface: a row may come from another producer of the    *)
(* format (a later version with more operation types, a hand-written log).  *)
(***************************************************************************)
ForeignTypes == {OpCopy, "link"}
ForeignLines(file) ==
    SelectSeq(file.lines, LAMBDA l : ~l.header /\ l.operation_type \in ForeignTypes)

ForeignRow(type, ok) ==
    /\ upc = "idle"
    /\ Len(ForeignLines(csv)) < MaxForeign
    /\ csv' = _write_to_csv(csv, to_dict(type, Append(InDir, NameCo),
                                         Append(OutDir, NameCo), 1, ok, ""))
    /\ UNCHANGED <<fs, last, calls, moved, clean, organizerVars, origin, run, matcher>>
    /\ UNCHANGED undoVars

NextForeign ==
    \/ Next
    \/ \E type \in ForeignTypes, ok \in BOOLEAN : ForeignRow(type, ok)

SpecForeign == Init /\ [][NextForeign]_vars

(***************************************************************************)
(* FileOperationLogger on its own: instances made one after the other on   *)
(* one log path, which may be there already, empty, before the first.      *)
(***************************************************************************)
EmptyFile == [exists |-> TRUE, lines |-> << >>]

InitLog ==
    /\ fs = TreeWith({Root, InDir, InDir2}, Append(InDir, NameCo), Append(InDir2, NameCo))
    /\ csv \in {NoFile, EmptyFile}
    /\ dry_run = FALSE
    /\ logger = FALSE
    /\ last = NoCall
    /\ calls = 0
    /\ moved = << >>
    /\ clean = TRUE
    /\ upc = "idle"
    /\ undo_dry = FALSE
    /\ queue = << >>
    /\ undone_count = 0
    /\ error_count = 0
    /\ errors = << >>
    /\ processed = << >>
    /\ fs0 = fs
    /\ clean0 = TRUE
    /\ origin = fs
    /\ run = NoRun
    /\ matcher = NoMatcher

\* FileOperationLogger.__init__: the instance keeps the path; the directory
\* of the log is there already
NewLogger ==
    /\ logger' = TRUE
    /\ last' = [NoCall EXCEPT !.op = "FileOperationLogger"]
    /\ UNCHANGED <<fs, csv, dry_run, calls, moved, clean, origin, run, matcher>>
    /\ UNCHANGED undoVars

\* FileOperationLogger.log_operation on the current instance
LogOperation(type, ok, ts) ==
    /\ logger
    /\ calls < MaxCalls
    /\ LET line == to_dict(type, Append(InDir, NameCo), Append(OutDir, NameCo), ts, ok,
                           IF ok THEN "" ELSE "error")
       IN  /\ csv' = _write_to_csv(csv, line)
           /\ last' = [op |-> "log_operation", line |-> line]
    /\ calls' = calls + 1
    /\ UNCHANGED <<fs, dry_run, logger, moved, clean, origin, run, matcher>>
    /\ UNCHANGED undoVars

NextLog ==
    \/ NewLogger
    \/ \E type \in {OpMove, OpCreateDir}, ok \in BOOLEAN, ts \in Timestamps :
          LogOperation(type, ok, ts)

SpecLog == InitLog /\ [][NextLog]_vars

(***************************************************************************)
(* FileOrganizerCore.organize_files with a logger: the scan and the        *)
(* analysis, then, unless the run is simulated, _move_file for every       *)
(* match, one step for each change of the filesystem and one for each      *)
(* write of the log, so that every state is a point at which the run can   *)
(* be interrupted.  Which files the matcher finds a company for is left    *)
(* open.                                                                    *)
(***************************************************************************)
MissingRoot == <<NameMissing>>
FileRoot == Append(InDir, NameCo)
Roots == {InDir, Root, MissingRoot, FileRoot}

\* FileScanner.scan_directory: the files below root
Scanned(s, root) == {p \in FilePaths(s) : HasPrefix(p, root)}

\* the match lists of a scan: files in the order rglob gave them, each at most
\* once; a matched file may be gone by the time it is moved
MatchLists(files) ==
    {q \in UNION {[1..k -> files \cup {MissingSource}] : k \in 0..MaxMatches} :
        \A i, j \in 1..Len(q) : i # j => q[i] # q[j]}

\* the line a call appended to the log, if it appended one
NewLines(before, after) ==
    IF after = before THEN << >> ELSE <<after.lines[Len(after.lines)]>>

InitRun ==
    /\ fs \in InitTrees
    /\ csv = NoFile
    \* FileOrganizerCore.__init__: dry_run as given, for the FileOrganizer too
    /\ dry_run \in BOOLEAN
    /\ logger = TRUE
    /\ last = NoCall
    /\ calls = 0
    /\ moved = << >>
    /\ clean = TRUE
    /\ upc = "idle"
    /\ undo_dry = FALSE
    /\ queue = << >>
    /\ undone_count = 0
    /\ error_count = 0
    /\ errors = << >>
    /\ processed = << >>
    /\ fs0 = fs
    /\ clean0 = TRUE
    /\ origin = fs
    /\ run = NoRun
    /\ matcher = NoMatcher

runFrame == <<dry_run, logger, last, calls, moved, clean, origin, matcher>>

\* the files scan_directory returned: those below the root, and the file of
\* a match that is gone since
ScannedFiles(s, root_path, matches) ==
    Scanned(s, root_path) \cup {matches[i] : i \in 1..Len(matches)}

\* variant: a file without a match is not counted as skipped
Analyzed_NoSkipped(r, files, matches) ==
    [r EXCEPT !.result.total_files = Cardinality(files),
              !.result.processed_files = Len(matches),
              !.result.matches = matches]

\* the counters after the analysis: a file is a match or is skipped
Analyzed(r, files, matches) ==
    [r EXCEPT !.result.total_files = Cardinality(files),
              !.result.processed_files = Len(matches),
              !.result.skipped_files =
                  Cardinality(files \ {matches[i] : i \in 1..Len(matches)}),
              !.result.matches = matches]

\* organize_files up to the move phase
OrganizeFiles(root_path, matches) ==
    /\ run.pc = "idle"
    /\ IF ~IsDir(fs, root_path)
       THEN \* scan_directory raises ValueError; the outer except takes it
            /\ matches = << >>
            /\ run' = [run EXCEPT !.pc = "returned",
                                  !.root = root_path,
                                  !.result.errors = <<"general">>]
       ELSE /\ matches \in MatchLists(Scanned(fs, root_path))
            /\ run' = [Analyzed(run, ScannedFiles(fs, root_path, matches), matches)
                          EXCEPT
                  !.root = root_path,
                  !.pc = IF matches = << >> \/ dry_run THEN "returned"
                         ELSE "create_dir",
                  !.todo = IF dry_run THEN << >> ELSE matches]
    /\ UNCHANGED <<fs, csv>>
    /\ UNCHANGED runFrame
    /\ UNCHANGED undoVars

\* variant: the exception of progress_callback is taken where it is raised,
\* and the run goes on
Cancelled_GoesOn(r) ==
    [r EXCEPT !.cancelled = TRUE, !.result.errors = Append(@, "general")]

\* progress_callback has raised: the exception leaves the phase it was
\* raised in, the outer except clause notes it, and the run returns
Cancelled(r) ==
    [r EXCEPT !.pc = "returned", !.todo = << >>, !.cancelled = TRUE,
              !.result.errors = Append(@, "general")]

\* organize_files when progress_callback raises during the scan (before
\* total_files is set) or during the analysis (after these matches)
ScanCancelled(root_path, phase, matches) ==
    /\ run.pc = "idle"
    /\ IsDir(fs, root_path)
    /\ matches \in MatchLists(Scanned(fs, root_path))
    /\ phase = "scan" => matches = << >>
    /\ run' = Cancelled([run EXCEPT
                  !.root = root_path,
                  !.result.total_files =
                      IF phase = "scan" THEN 0
                      ELSE Cardinality(ScannedFiles(fs, root_path, matches)),
                  !.result.matches = matches])
    /\ UNCHANGED <<fs, csv>>
    /\ UNCHANGED runFrame
    /\ UNCHANGED undoVars

\* the move phase when progress_callback raises before _move_file is called
\* for the next match
MoveCancelled ==
    /\ run.pc = "create_dir"
    /\ run' = Cancelled(run)
    /\ UNCHANGED <<fs, csv>>
    /\ UNCHANGED runFrame
    /\ UNCHANGED undoVars

\* variant: an exception of _move_file ends the move phase
AfterMoveFile_Abort(r, success, raised) ==
    [r EXCEPT
        !.pc = IF Len(r.todo) = 1 \/ raised THEN "returned" ELSE "create_dir",
        !.todo = IF raised THEN << >> ELSE Tail(r.todo),
        !.pending = << >>,
        !.result.successful_moves = IF success /\ ~raised THEN @ + 1 ELSE @,
        !.result.failed_moves = IF success /\ ~raised THEN @ ELSE @ + 1,
        !.result.errors = IF raised THEN Append(@, "move") ELSE @]

\* the loop of the move phase after _move_file has returned or raised
AfterMoveFile(r, success, raised) ==
    [r EXCEPT
        !.pc = IF Len(r.todo) = 1 THEN "returned" ELSE "create_dir",
        !.todo = Tail(r.todo),
        !.pending = << >>,
        !.result.successful_moves = IF success /\ ~raised THEN @ + 1 ELSE @,
        !.result.failed_moves = IF success /\ ~raised THEN @ ELSE @ + 1,
        !.result.errors = IF raised THEN Append(@, "move") ELSE @]

\* _move_file: create_directory_structure up to its write of the log
RunCreateDir ==
    /\ run.pc = "create_dir"
    /\ LET r == create_directory_structure(fs, csv, dry_run, logger, OutDir, NameCo,
                                           NameYear, NameCategory, 1)
       IN  /\ fs' = r.fs
           /\ run' = [run EXCEPT !.pc = "log_create_dir",
                                 !.dest = r.path,
                                 !.raised = r.raised,
                                 !.pending = NewLines(csv, r.csv),
                                 !.performed = @ \o NewLines(csv, r.csv)]
    /\ UNCHANGED csv
    /\ UNCHANGED runFrame
    /\ UNCHANGED undoVars

\* _move_file: move_file up to its write of the log
RunMove ==
    /\ run.pc = "move"
    /\ LET r == move_file(fs, csv, dry_run, logger, Head(run.todo), run.dest, 1)
       IN  /\ fs' = r.fs
           /\ run' = [run EXCEPT !.pc = "log_move",
                                 !.ok = r.ok,
                                 !.raised = r.raised,
                                 !.pending = NewLines(csv, r.csv),
                                 !.performed = @ \o NewLines(csv, r.csv)]
    /\ UNCHANGED csv
    /\ UNCHANGED runFrame
    /\ UNCHANGED undoVars

\* variant: a failed write of the log raises out of log_operation, into the
\* except clause of the call that logs
RunLog_WriteRaises(written) ==
    /\ run.pc \in {"log_create_dir", "log_move"}
    /\ run.pending = << >> => written
    /\ csv' = IF run.pending # << >> /\ written
              THEN _write_to_csv(csv, run.pending[1]) ELSE csv
    /\ LET r == [run EXCEPT !.lost = IF written THEN @ ELSE @ + 1]
       IN  run' = IF ~written THEN AfterMoveFile(r, FALSE, TRUE)
                  ELSE IF run.pc = "log_create_dir"
                  THEN IF run.raised THEN AfterMoveFile(r, FALSE, TRUE)
                       ELSE [r EXCEPT !.pc = "move", !.pending = << >>]
                  ELSE AfterMoveFile(r, run.ok, run.raised \/ ~run.ok)
    /\ UNCHANGED fs
    /\ UNCHANGED runFrame
    /\ UNCHANGED undoVars

\* log_operation: the write goes through, or it fails and _write_to_csv
\* swallows the exception; then the call returns or raises to its caller
RunLog(written) ==
    /\ run.pc \in {"log_create_dir", "log_move"}
    /\ run.pending = << >> => written
    /\ csv' = IF run.pending # << >> /\ written
              THEN _write_to_csv(csv, run.pending[1]) ELSE csv
    /\ LET r == [run EXCEPT !.lost = IF written THEN @ ELSE @ + 1]
       IN  run' = IF run.pc = "log_create_dir"
                  THEN IF run.raised THEN AfterMoveFile(r, FALSE, TRUE)
                       ELSE [r EXCEPT !.pc = "move", !.pending = << >>]
                  \* _move_file raises when move_file gave an error message
                  ELSE AfterMoveFile(r, run.ok, run.raised \/ ~run.ok)
    /\ UNCHANGED fs
    /\ UNCHANGED runFrame
    /\ UNCHANGED undoVars

NextRun ==
    \/ \E root_path \in Roots :
          \E matches \in MatchLists(Scanned(fs, root_path)) :
             OrganizeFiles(root_path, matches)
    \/ RunCreateDir
    \/ RunMove
    \/ \E written \in BOOLEAN : RunLog(written)
    \/ \E root_path \in Roots, phase \in {"scan", "analysis"} :
          \E matches \in MatchLists(Scanned(fs, root_path)) :
             ScanCancelled(root_path, phase, matches)
    \/ MoveCancelled

SpecRun == InitRun /\ [][NextRun]_vars

(***************************************************************************)
(* CompanyMatcher on its own: a matcher made with a threshold over one of  *)
(* two configurations, companies added to it, and the file it is asked     *)
(* about.                                                                   *)
(***************************************************************************)
\* list(set(...)): the elements of a set, in any order
Orders(S) == {order \in [1..Cardinality(S) -> S] : Range(order) = S}

\* the dict after company_aliases[company_name] = all_aliases
Assigned(company_aliases, company_name, all_aliases) ==
    IF \E k \in DOMAIN company_aliases : company_aliases[k].name = company_name
    THEN [k \in DOMAIN company_aliases |->
             IF company_aliases[k].name = company_name
             THEN [name |-> company_name, aliases |-> all_aliases]
             ELSE company_aliases[k]]
    ELSE Append(company_aliases, [name |-> company_name, aliases |-> all_aliases])

\* the dicts _load_companies_from_config may leave: each company of the
\* configuration added in turn
RECURSIVE Loaded(_, _)
Loaded(config, dicts) ==
    IF config = << >> THEN dicts
    ELSE Loaded(Tail(config),
                {Assigned(d, Head(config).name, order) :
                    d \in dicts,
                    order \in Orders(AllAliases(Head(config).name, Head(config).aliases))})

\* CompanyMatcher.__init__
InitMatch ==
    /\ fs = TreeWith({Root, InDir, InDir2}, Append(InDir, NameCo), Append(InDir2, NameCo))
    /\ csv = NoFile
    /\ dry_run = FALSE
    /\ logger = FALSE
    /\ last = NoCall
    /\ calls = 0
    /\ moved = << >>
    /\ clean = TRUE
    /\ upc = "idle"
    /\ undo_dry = FALSE
    /\ queue = << >>
    /\ undone_count = 0
    /\ error_count = 0
    /\ errors = << >>
    /\ processed = << >>
    /\ fs0 = fs
    /\ clean0 = TRUE
    /\ origin = fs
    /\ run = NoRun
    /\ \E threshold \in Thresholds, config \in Configs, file_path \in QueryPaths :
          \E company_aliases \in Loaded(config, {<< >>}) :
             matcher = [threshold |-> threshold, config |-> config,
                        company_aliases |-> company_aliases, file_path |-> file_path,
                        queries |-> 0]

matchFrame == <<fs, csv, dry_run, logger, calls, moved, clean, origin, run>>

\* CompanyMatcher.add_company, for a company the matcher does not have
AddCompany(company_name, aliases) ==
    /\ matcher.queries = 0
    /\ \A k \in DOMAIN matcher.company_aliases :
          matcher.company_aliases[k].name # company_name
    /\ \E order \in Orders(AllAliases(company_name, aliases)) :
          matcher' = [matcher EXCEPT !.company_aliases =
                         Assigned(@, company_name, order)]
    /\ last' = [op |-> "add_company", company |-> company_name]
    /\ UNCHANGED matchFrame
    /\ UNCHANGED undoVars

FindBestMatch ==
    /\ matcher.queries < MaxQueries
    /\ matcher' = [matcher EXCEPT !.queries = @ + 1]
    /\ last' = [op |-> "find_best_match",
                result |-> <<find_best_match(matcher, Basename(matcher.file_path))>>]
    /\ UNCHANGED matchFrame
    /\ UNCHANGED undoVars

ExtractFromFilename ==
    /\ matcher.queries < MaxQueries
    /\ matcher' = [matcher EXCEPT !.queries = @ + 1]
    /\ last' = [op |-> "extract_company_names_from_filename",
                result |-> extract_company_names_from_filename(
                               matcher, Basename(matcher.file_path))]
    /\ UNCHANGED matchFrame
    /\ UNCHANGED undoVars

ExtractFromPath ==
    /\ matcher.queries < MaxQueries
    /\ matcher' = [matcher EXCEPT !.queries = @ + 1]
    /\ last' = [op |-> "extract_company_names_from_path",
                result |-> extract_company_names_from_path(matcher, matcher.file_path)]
    /\ UNCHANGED matchFrame
    /\ UNCHANGED undoVars

NextMatch ==
    \/ \E company_name \in AddedCompanies : AddCompany(company_name, << >>)
    \/ FindBestMatch
    \/ ExtractFromFilename
    \/ ExtractFromPath

SpecMatch == InitMatch /\ [][NextMatch]_vars

(***************************************************************************)
(* The two scores of extract_company_names_from_path on their own: a match *)
(* of the file name and a match of a part of the path, for one company,    *)
(* under one threshold.                                                    *)
(***************************************************************************)
\* the thresholds a matcher is made with: 0 to 100, five points apart
ScoreThresholds == {t * 5 * Point : t \in 0..20}

\* the scores find_best_match gives with a company: above 0, at most 100
RawScores == {s * 5 * Point : s \in 1..20}

NoScores ==
    [op |-> "scores", filename_raw |-> 0, path_raw |-> 0,
     filename_matches |-> << >>, path_matches |-> << >>]

InitScores ==
    /\ fs = TreeWith({Root, InDir, InDir2}, Append(InDir, NameCo), Append(InDir2, NameCo))
    /\ csv = NoFile
    /\ dry_run = FALSE
    /\ logger = FALSE
    /\ last = NoScores
    /\ calls = 0
    /\ moved = << >>
    /\ clean = TRUE
    /\ upc = "idle"
    /\ undo_dry = FALSE
    /\ queue = << >>
    /\ undone_count = 0
    /\ error_count = 0
    /\ errors = << >>
    /\ processed = << >>
    /\ fs0 = fs
    /\ clean0 = TRUE
    /\ origin = fs
    /\ run = NoRun
    /\ \E threshold \in ScoreThresholds :
          matcher = [NoMatcher EXCEPT !.threshold = threshold]

\* the file name of one file matches the company with this score
BoostFilename(score) ==
    /\ last.filename_raw = 0
    /\ last' = [last EXCEPT
                   !.filename_raw = score,
                   !.filename_matches =
                       Boosted(Kept(matcher, [company |-> Kappa, score |-> score,
                                              matched_text |-> Lower(Kappa)]))]
    /\ UNCHANGED <<matcher, matchFrame, undoVars>>

\* a part of the path of another file, whose name matches nothing, matches
\* the company with this score
PenalizePath(score) ==
    /\ last.path_raw = 0
    /\ last' = [last EXCEPT
                   !.path_raw = score,
                   !.path_matches =
                       Penalized(matcher,
                                 Kept(matcher, [company |-> Kappa, score |-> score,
                                                matched_text |-> Lower(Kappa)]))]
    /\ UNCHANGED <<matcher, matchFrame, undoVars>>

NextScores ==
    \/ \E score \in RawScores : BoostFilename(score)
    \/ \E score \in RawScores : PenalizePath(score)

SpecScores == InitScores /\ [][NextScores]_vars

(***************************************************************************)
(* CompanyNameNormalizer.normalize on its own: a text, normalized, and the *)
(* result normalized again.                                                *)
(***************************************************************************)
MaxNormalize == 2

\* the texts normalize is given: two words with a separator between them
NormalizeWords ==
    {<< >>, <<"A", "c", "m", "e">>, <<"i", "n", "c">>, <<"i", "n", "c", ".">>,
     <<"o", "r", "p", "o", "r", "a", "t", "e", "d">>, <<"c", "o", "r", "p", ".">>,
     <<"o", "r", "a", "t", "i", "o", "n">>, <<"S", ".", "p", ".", "A", ".">>,
     <<"l", "i", "m", "i", "t", "e", "d">>, <<"R", "o", "s", "s", "i">>}

NormalizeSeparators == {<< >>, <<" ">>, <<".">>, <<" ", " ">>, <<"-">>}

NormalizeTexts ==
    {first \o separator \o second :
        first \in NormalizeWords, separator \in NormalizeSeparators,
        second \in NormalizeWords}

InitNormalize ==
    /\ fs = TreeWith({Root, InDir, InDir2}, Append(InDir, NameCo), Append(InDir2, NameCo))
    /\ csv = NoFile
    /\ dry_run = FALSE
    /\ logger = FALSE
    /\ \E text \in NormalizeTexts :
          last = [op |-> "text", text |-> text, result |-> text, calls |-> 0]
    /\ calls = 0
    /\ moved = << >>
    /\ clean = TRUE
    /\ upc = "idle"
    /\ undo_dry = FALSE
    /\ queue = << >>
    /\ undone_count = 0
    /\ error_count = 0
    /\ errors = << >>
    /\ processed = << >>
    /\ fs0 = fs
    /\ clean0 = TRUE
    /\ origin = fs
    /\ run = NoRun
    /\ matcher = NoMatcher

\* normalize, given the text at hand: the text drawn, then each result
Normalize ==
    /\ last.calls < MaxNormalize
    /\ last' = [op |-> "normalize", text |-> last.result,
                result |-> normalize(last.result), calls |-> last.calls + 1]
    /\ UNCHANGED <<matcher, matchFrame, undoVars>>

NextNormalize == Normalize

SpecNormalize == InitNormalize /\ [][NextNormalize]_vars

(***************************************************************************)
(* FileOrganizerCore: the suggested path of a FileMatch.                   *)
(***************************************************************************)
\* file_date.strftime("%Y-%m-%d") of the date of a file; _analyze_file takes
\* the date from the name or from the modification time, so a file that is
\* there has one
NameDate == <<"d">>

generate_organized_filename(original_filename, date_str) ==
    IF date_str # << >>
    THEN _sanitize_filename(date_str \o <<"_">> \o Stem(original_filename)
                                \o Suffix(original_filename))
    ELSE _sanitize_filename(original_filename)

\* f"{safe_company}/{safe_category}/{year}/{new_filename}", as a path
_generate_suggested_path(company_name, category, year, filename, date_str) ==
    <<_sanitize_filename(company_name), category, year,
      IF date_str # << >> THEN generate_organized_filename(filename, date_str)
      ELSE filename>>

\* FileMatch.suggested_path as _analyze_file sets it for a file of the run
suggested_path(file_path) ==
    _generate_suggested_path(NameCo, NameCategory, NameYear, Basename(file_path),
                             NameDate)

(***************************************************************************)
(* move_file into a directory where the name is taken: the file of the     *)
(* input directory is moved to the output directory, in which the plain    *)
(* name and some of the suffixed names stand already.                      *)
(***************************************************************************)
\* the output directory with the plain name (or not) and the suffixed names
\* of these counters
CollisionTree(plain, taken) ==
    [q \in {Root, InDir, OutDir, Append(InDir, NameCo)}
           \cup (IF plain THEN {Append(OutDir, NameCo)} ELSE {})
           \cup {CollisionPath(Append(OutDir, NameCo), k) : k \in taken} |->
        IF q \in {Root, InDir, OutDir} THEN Dir
        ELSE IF q = Append(InDir, NameCo) THEN F1 ELSE F2]

\* the trees: few suffixed names taken (none, the first ones, some with a
\* gap), with and without the plain name; all but the last one taken; all
\* of them taken
CollisionTrees ==
    {CollisionTree(plain, taken) :
        plain \in BOOLEAN, taken \in {{}, {1}, {1, 2}, {2}, {1, 3}}}
    \cup {CollisionTree(TRUE, 1..(CollisionLimit - 1)),
          CollisionTree(TRUE, 1..CollisionLimit)}

\* FileOrganizer.__init__ with dry_run=False
InitCollide ==
    /\ fs \in CollisionTrees
    /\ csv = NoFile
    /\ dry_run = FALSE
    /\ logger = FALSE
    /\ last = NoCall
    /\ calls = 0
    /\ moved = << >>
    /\ clean = TRUE
    /\ upc = "idle"
    /\ undo_dry = FALSE
    /\ queue = << >>
    /\ undone_count = 0
    /\ error_count = 0
    /\ errors = << >>
    /\ processed = << >>
    /\ fs0 = fs
    /\ clean0 = TRUE
    /\ origin = fs
    /\ run = NoRun
    /\ matcher = NoMatcher

NextCollide ==
    \/ SetLogger
    \/ \E ts \in Timestamps : MoveFile(Append(InDir, NameCo), OutDir, ts)

SpecCollide == InitCollide /\ [][NextCollide]_vars

(***************************************************************************)
(* A run of organize_files and then UndoManager.undo_operations on the     *)
(* log the run wrote: the undo is started once the run has returned, and   *)
(* nothing else touches the tree.                                          *)
(***************************************************************************)
UndoAfterRun(d) ==
    /\ run.pc = "returned"
    /\ UndoStart(d)

NextRunUndo ==
    \/ NextRun
    \/ \E d \in BOOLEAN : UndoAfterRun(d)
    \/ UndoStep
    \/ UndoFinish
    \/ UndoReturn

SpecRunUndo == InitRun /\ [][NextRunUndo]_vars

(***************************************************************************)
(* A FileOrganizer at work on a tree and a log an earlier one left behind:  *)
(* that one had moved i/c.o into o/ and, from there, into j/ (where a file  *)
(* of the name was, so a suffix was added), with a logger attached.         *)
(***************************************************************************)
EarlierFirst ==
    move_file(TreeWith({Root, InDir, InDir2}, Append(InDir, NameCo), Append(InDir2, NameCo)),
              NoFile, FALSE, TRUE, Append(InDir, NameCo), OutDir, 1)
EarlierSecond ==
    move_file(EarlierFirst.fs, EarlierFirst.csv, FALSE, TRUE, EarlierFirst.path, InDir2, 1)

InitLater ==
    /\ fs = EarlierSecond.fs
    /\ csv = EarlierSecond.csv
    /\ dry_run \in BOOLEAN
    /\ logger = FALSE
    /\ last = NoCall
    /\ calls = 0
    /\ moved = << >>
    /\ clean = TRUE
    /\ upc = "idle"
    /\ undo_dry = FALSE
    /\ queue = << >>
    /\ undone_count = 0
    /\ error_count = 0
    /\ errors = << >>
    /\ processed = << >>
    /\ fs0 = fs
    /\ clean0 = TRUE
    /\ origin = fs
    /\ run = NoRun
    /\ matcher = NoMatcher

SpecLater == InitLater /\ [][Next]_vars

(***************************************************************************)
(* What the claims speak of.                                               *)
(***************************************************************************)
\* the operations undo_operations reads from the log as it stands
LoggedOps == load_operations_from_csv(csv)
SuccessRows(type) ==
    {i \in 1..Len(LoggedOps) :
        LoggedOps[i].success /\ LoggedOps[i].operation_type = type}
\* a non-simulated undo run has returned, and every change made to the
\* filesystem before it was made by a logged FileOrganizer call
RealUndoOfCleanLog == upc = "done" /\ ~undo_dry /\ clean0
\* no directory stands where a moved file came from
NoDirAtOriginalPath ==
    \A i \in SuccessRows(OpMove) : ~IsDir(fs0, LoggedOps[i].original_path)
\* an earlier row of the log put something into directory d
EarlierRowInside(i, d) ==
    \E j \in 1..(i - 1) :
        /\ LoggedOps[j].success
        /\ Len(LoggedOps[j].new_path) > Len(d)
        /\ HasPrefix(LoggedOps[j].new_path, d)
EmptyDir(s, d) == IsDir(s, d) /\ Children(s, d) = {}

\* C1 (as amended): after a non-simulated undo of a log that records every
\* change made to the filesystem, and with no directory created at the
\* original path of a moved file, every file is back at the path it had before
\* the logged moves (and so absent from the paths they moved it to); a
\* directory named by a create_dir row that is still there and empty was not
\* empty when its row was processed: an earlier row of the log had put
\* something into it.
C1_RoundTrip ==
    RealUndoOfCleanLog =>
        /\ NoDirAtOriginalPath =>
              \A f \in FileIds : Where(fs, f) = Where(origin, f)
        /\ \A i \in SuccessRows(OpCreateDir) :
              EmptyDir(fs, LoggedOps[i].new_path)
                  => EarlierRowInside(i, LoggedOps[i].new_path)

\* a file was moved by logged calls and is back, and the directory of a
\* create_dir row is gone
C1_Witness ==
    /\ RealUndoOfCleanLog
    /\ NoDirAtOriginalPath
    /\ \E f \in FileIds :
          Where(fs0, f) # Where(origin, f) /\ Where(fs, f) = Where(origin, f)
    /\ \E i \in SuccessRows(OpCreateDir) :
          IsDir(fs0, LoggedOps[i].new_path) /\ ~Exists(fs, LoggedOps[i].new_path)

\* C1 as stated: every moved file is back at A and absent from B, and a
\* create_dir directory that the undo left empty is removed.
C1_Original ==
    RealUndoOfCleanLog =>
        /\ \A f \in FileIds : Where(fs, f) = Where(origin, f)
        /\ \A i \in SuccessRows(OpCreateDir) : ~EmptyDir(fs, LoggedOps[i].new_path)

\* C2: a non-simulated move_file never overwrites: no file is ever replaced,
\* every file that move_file moved stands at the final path the call returned
\* (until an undo moves it again), and no two moved files share a final path.
C2_NoOverwrite ==
    /\ \A f \in FileIds : Where(fs, f) # {}
    /\ \A f \in DOMAIN moved : Exists(fs, moved[f]) /\ fs[moved[f]] = f
    /\ \A f, g \in DOMAIN moved : f # g => moved[f] # moved[g]

\* both files, of the same name, were moved from elsewhere into one directory
C2_Witness ==
    /\ upc = "idle"
    /\ DOMAIN moved = FileIds
    /\ Parent(moved[F1]) = Parent(moved[F2])
    /\ \A f \in FileIds : \A p \in Where(origin, f) :
          Parent(p) # Parent(moved[f]) /\ Basename(p) = NameCo
    /\ Basename(moved[F1]) # Basename(moved[F2])

DataLines(file) == SelectSeq(file.lines, LAMBDA l : ~l.header)
MoveFileCalled == calls' = calls + 1 /\ last'.op = "move_file"

\* C3 as stated: every call of move_file made while a logger is attached
\* appends exactly one move line to the log, with success False when the call
\* failed.
C3_EveryMoveLogged ==
    [][(MoveFileCalled /\ last'.attached) =>
          /\ Len(DataLines(csv')) = Len(DataLines(csv)) + 1
          /\ DataLines(csv')[Len(DataLines(csv'))].operation_type = OpMove
          /\ DataLines(csv')[Len(DataLines(csv'))].success = BoolText(last'.ok)]_vars

\* the lines of the log whose success column reads True, in file order
TrueLines(file) == SelectSeq(DataLines(file), LAMBDA l : l.success = "True")
SameOperation(op, line) ==
    /\ op.operation_type = line.operation_type
    /\ op.original_path = line.original_path
    /\ op.new_path = line.new_path
    /\ op.timestamp = line.timestamp

\* C4: while undo_operations runs and when it has run, the operations it has
\* processed, followed by those it still has to process, are the rows of the
\* log whose success is True, last row first: the order is the reverse of the
\* file order whatever the timestamps are, and a row whose success is False
\* is never processed.
C4_ReverseFileOrder ==
    upc \in {"loop", "done"} =>
        LET todo == processed \o queue
            rows == TrueLines(csv)
        IN  /\ Len(todo) = Len(rows)
            /\ \A k \in 1..Len(todo) :
                  todo[k].success /\ SameOperation(todo[k], rows[Len(rows) + 1 - k])

\* an undo run has processed two rows, the later row of the file first though
\* its timestamp is the earlier one
C4_Witness ==
    /\ upc = "done"
    /\ Len(processed) = 2
    /\ processed[1] # processed[2]
    /\ processed[1].timestamp < processed[2].timestamp
    /\ SameOperation(processed[1], DataLines(csv)[Len(DataLines(csv))])

\* one turn of the loop of undo_operations has run, on the operation Head(queue)
UndoStepped == upc = "loop" /\ processed' # processed
Counted(ok) ==
    /\ undone_count' = (IF ok THEN undone_count + 1 ELSE undone_count)
    /\ error_count' = (IF ok THEN error_count ELSE error_count + 1)

\* C5: a non-simulated undo of a move record whose new_path is gone or whose
\* original_path exists changes nothing and counts as a failure; of any other
\* move record it counts as undone, what stood at new_path stands at
\* original_path, every directory above original_path exists, and nothing
\* outside the two paths has changed.
C5_UndoMove ==
    [][(UndoStepped /\ ~undo_dry /\ Head(queue).operation_type = OpMove) =>
          LET new_path == Head(queue).new_path
              original_path == Head(queue).original_path
          IN  IF ~Exists(fs, new_path) \/ Exists(fs, original_path)
              THEN fs' = fs /\ Counted(FALSE)
              ELSE /\ Counted(TRUE)
                   /\ Exists(fs', original_path)
                   /\ fs'[original_path] = fs[new_path]
                   /\ ~Exists(fs', new_path)
                   /\ \A d \in Prefixes(Parent(original_path)) : IsDir(fs', d)
                   /\ \A q \in DOMAIN fs :
                         ~HasPrefix(q, new_path) => Exists(fs', q) /\ fs'[q] = fs[q]
                   /\ \A q \in DOMAIN fs' :
                         \/ q \in DOMAIN fs
                         \/ HasPrefix(q, original_path)
                         \/ q \in Prefixes(original_path)]_vars

\* an undo run removed the empty directory of a create_dir row and then moved
\* a file back into it: the directory was made again for the file
C5_Witness ==
    /\ upc = "done" /\ ~undo_dry
    /\ Len(processed) = 2 /\ undone_count = 2
    /\ processed[1].operation_type = OpCreateDir
    /\ processed[2].operation_type = OpMove
    /\ processed[1].new_path = Parent(processed[2].original_path)
    /\ EmptyDir(fs0, processed[1].new_path)
    /\ IsFile(fs0, processed[2].new_path)
    /\ IsFile(fs, processed[2].original_path)
    /\ ~Exists(fs, processed[2].new_path)

\* C6: no turn of the undo loop, simulated or not, deletes a file or a
\* directory that holds something (a directory standing at the new_path of a
\* move record is moved with what it holds); a non-simulated undo of a
\* create_dir record counts as undone and changes nothing when the directory
\* is gone, removes the directory and nothing else when it is empty, and
\* changes nothing when it holds something.
C6_UndoCreateDir ==
    [][UndoStepped =>
          /\ \A f \in FileIds : Where(fs, f) # {} => Where(fs', f) # {}
          /\ \A d \in DOMAIN fs \ DOMAIN fs' :
                (IsDir(fs, d) /\ Children(fs, d) # {}) =>
                    /\ Head(queue).operation_type = OpMove
                    /\ HasPrefix(d, Head(queue).new_path)
          /\ (~undo_dry /\ Head(queue).operation_type = OpCreateDir) =>
                LET dir_path == Head(queue).new_path
                IN  IF ~Exists(fs, dir_path) THEN fs' = fs /\ Counted(TRUE)
                    ELSE IF EmptyDir(fs, dir_path)
                    THEN /\ fs' = [q \in DOMAIN fs \ {dir_path} |-> fs[q]]
                         /\ Counted(TRUE)
                    ELSE fs' = fs]_vars

\* an undo run processed two create_dir rows of one directory: it removed the
\* empty directory for the first and found it gone for the second
C6_Witness ==
    /\ upc = "done" /\ ~undo_dry
    /\ Len(processed) = 2 /\ undone_count = 2
    /\ \A k \in 1..2 : processed[k].operation_type = OpCreateDir
    /\ processed[1].new_path = processed[2].new_path
    /\ EmptyDir(fs0, processed[1].new_path)
    /\ ~Exists(fs, processed[1].new_path)

WellFormed(file) ==
    /\ file.exists
    /\ file.lines # << >> /\ Head(file.lines).header
    /\ \A k \in 1..Len(DataLines(file)) :
          DataLines(file)[k].operation_type \in OperationType

\* C8: on a well-formed log undo_operations does not raise; every turn of
\* its loop counts its record once, as undone or as an error, and when it
\* returns it has processed every row whose success is True: undone_count
\* plus error_count is the number of those rows.
C8_RunsToCompletion ==
    WellFormed(csv) =>
        /\ upc # "raised"
        /\ upc \in {"loop", "done"} =>
              undone_count + error_count = Len(processed)
        /\ upc = "done" =>
              /\ queue = << >>
              /\ Len(processed) = Len(TrueLines(csv))
              /\ undone_count + error_count = Len(TrueLines(csv))

\* an undo run on a log with a copy row has counted the copy row, processed
\* first, as an error and has gone on to undo an earlier row
C8_Witness ==
    /\ upc = "done"
    /\ WellFormed(csv)
    /\ Len(processed) >= 2
    /\ processed[1].operation_type = OpCopy
    /\ error_count >= 1 /\ undone_count >= 1

\* C9 as stated, for the logs a non-simulated organizer writes: the error
\* list has one entry for every record the undo failed to reverse: its
\* length is error_count.
C9_ErrorListLength ==
    (upc \in {"loop", "done"} /\ ~dry_run) => Len(errors) = error_count

\* the rows of the log with success True that the undo engine cannot undo
UnsupportedLines(file) ==
    SelectSeq(TrueLines(file),
              LAMBDA l : l.operation_type \notin {OpMove, OpCreateDir})

\* C10 as stated: when undo_operations returns, it has recorded an error for
\* every row with success True whose operation type it does not support,
\* copy or unknown.
C10_UnsupportedRecorded ==
    (upc = "done" /\ csv.lines # << >> /\ Head(csv.lines).header) =>
        /\ error_count >= Len(UnsupportedLines(csv))
        /\ Len(errors) >= Len(UnsupportedLines(csv))

LogOperationCalled == calls' = calls + 1 /\ last'.op = "log_operation"

\* C11 as stated: after every log_operation call, on a log path that was
\* missing or an empty file at the start, the file holds the header as its
\* first line and nowhere else, followed by the data lines it held before the
\* call and then the line of this call.
C11_OneHeaderThenRows ==
    [][LogOperationCalled =>
          /\ csv'.exists /\ csv'.lines # << >>
          /\ Head(csv'.lines).header
          /\ Tail(csv'.lines) = Append(DataLines(csv), last'.line)]_vars

IsPrefix(a, b) == Len(a) <= Len(b) /\ SubSeq(b, 1, Len(a)) = a
\* a is b with some elements left out
RECURSIVE IsSubsequence(_, _)
IsSubsequence(a, b) ==
    IF a = << >> THEN TRUE
    ELSE IF b = << >> THEN FALSE
    ELSE IF Head(a) = Head(b) THEN IsSubsequence(Tail(a), Tail(b))
    ELSE IsSubsequence(a, Tail(b))

\* the rows of the log that say a move succeeded
MovedRows(file) ==
    {k \in 1..Len(DataLines(file)) :
        /\ DataLines(file)[k].operation_type = OpMove
        /\ DataLines(file)[k].success = "True"}
\* a later operation of the run moved a file to path p
LaterMoveTo(performed, k, p) ==
    \E j \in (k + 1)..Len(performed) :
        /\ performed[j].operation_type = OpMove
        /\ performed[j].success = "True"
        /\ performed[j].new_path = p

MoveRowLost == run.pc = "log_move" /\ run.ok /\ run'.lost = run.lost + 1

C14_SimulatedMove ==
    [][(MoveFileCalled /\ last'.dry) =>
          /\ fs' = fs
          /\ Exists(fs, last'.source) =>
                /\ last'.ok /\ ~last'.raised
                /\ last'.path = Append(last'.dest, Basename(last'.source))]_vars

\* a simulated move_file has reported a path at which a file stands, another
\* file than the source, and nothing on the filesystem has changed
C14_Witness ==
    /\ last.op = "move_file" /\ last.dry /\ last.ok
    /\ calls = 1
    /\ fs = origin
    /\ IsFile(fs, last.path)
    /\ IsFile(fs, last.source)
    /\ last.path # last.source
    /\ ~Exists(fs, Append(last.dest, <<"c", "_", "1", ".", "o">>))

\* C15 as stated: organize_files called with a root path that does not
\* exist or is no directory raises to its caller and returns no result.
C15_InvalidRootRaises ==
    (run.pc = "returned" /\ ~IsDir(origin, run.root)) => run.raisedToCaller

\* the move phase has finished with the match Head(run.todo)
MatchDone ==
    /\ run.pc \in {"log_create_dir", "log_move"}
    /\ run'.pc \in {"create_dir", "returned"}
\* the file of the match was there when the run began and has left its path
MatchMoved == Exists(origin, Head(run.todo)) /\ ~Exists(fs', Head(run.todo))

\* C16: in the move phase of a non-simulated run, a match whose file was not
\* moved adds one entry to result.errors and one to failed_moves and nothing
\* to successful_moves; a match whose file was moved adds one to
\* successful_moves only; the phase goes on to the next match, so that when
\* the run returns every match has been counted once.
C16_FailedMoveCounted ==
    [][MatchDone =>
          /\ run'.todo = Tail(run.todo)
          /\ IF MatchMoved
             THEN /\ run'.result.successful_moves = run.result.successful_moves + 1
                  /\ run'.result.failed_moves = run.result.failed_moves
                  /\ run'.result.errors = run.result.errors
             ELSE /\ run'.result.successful_moves = run.result.successful_moves
                  /\ run'.result.failed_moves = run.result.failed_moves + 1
                  /\ Len(run'.result.errors) = Len(run.result.errors) + 1
          /\ run'.pc = "returned" =>
                /\ run'.todo = << >>
                /\ run'.result.successful_moves + run'.result.failed_moves
                      = Len(run'.result.matches)]_vars

\* a run has returned: the file of its first match was gone, which is in the
\* error list, and the file of its second match is moved
C16_Witness ==
    /\ run.pc = "returned"
    /\ Len(run.result.matches) = 2
    /\ run.result.matches[1] = MissingSource
    /\ run.result.failed_moves = 1
    /\ Len(run.result.errors) = 1
    /\ run.result.successful_moves = 1
    /\ ~Exists(fs, run.result.matches[2])

(***************************************************************************)
(* CompanyMatcher.                                                         *)
(***************************************************************************)
\* the matcher with another threshold: the same companies, the same aliases
\* in the same order
AtThreshold(threshold) == [matcher EXCEPT !.threshold = threshold]
\* what the call that has just returned returns at another threshold
ResultAt(threshold) ==
    IF last.op = "extract_company_names_from_filename"
    THEN extract_company_names_from_filename(AtThreshold(threshold),
                                             Basename(matcher.file_path))
    ELSE extract_company_names_from_path(AtThreshold(threshold), matcher.file_path)
Extracted ==
    last.op \in {"extract_company_names_from_filename",
                 "extract_company_names_from_path"}

\* C17 as stated: for one set of registered companies and one file, every
\* company extract_company_names_from_filename (or _from_path) returns at a
\* threshold is returned at every lower threshold too.
C17_ThresholdMonotone ==
    Extracted =>
        \A t1 \in Thresholds :
            t1 < matcher.threshold => Companies(last.result) \subseteq Companies(ResultAt(t1))

\* find_best_match has just been called with a text that is, verbatim, a
\* non-empty alias of the company at place k of the matcher
AskedAlias(k) ==
    /\ last.op = "find_best_match"
    /\ Basename(matcher.file_path) # << >>
    /\ Basename(matcher.file_path) \in Range(matcher.company_aliases[k].aliases)
\* the call returned a company, with score 100
Returned100 == last.result[1].company # None /\ last.result[1].score = 100 * Point

\* C18 as stated: find_best_match called with any non-empty alias of a
\* registered company returns a company with score 100, at any threshold up
\* to 100.
C18_Original ==
    \A k \in DOMAIN matcher.company_aliases : AskedAlias(k) => Returned100

\* C18, amended: find_best_match called with a non-empty alias of a
\* registered company returns a company with score 100, at any threshold up
\* to 100, when normalize leaves the alias as it is and the alias, taken as
\* matched text and as full text, passes the validity rule of its company.
C18_ValidAliasScores100 ==
    \A k \in DOMAIN matcher.company_aliases :
        (/\ AskedAlias(k)
         /\ normalize(Basename(matcher.file_path)) = Basename(matcher.file_path)
         /\ is_valid_match(matcher.config, matcher.company_aliases[k].name,
                           Basename(matcher.file_path), Basename(matcher.file_path)))
            => Returned100

\* the matcher with threshold 100 was asked for "kappa", the alias of the
\* company Kappa added to it, and returned Kappa with score 100
C18_Witness ==
    /\ \E k \in DOMAIN matcher.company_aliases :
          AskedAlias(k) /\ matcher.company_aliases[k].name = Kappa
    /\ matcher.threshold = 100 * Point
    /\ last.result[1].company = Kappa
    /\ last.result[1].score = 100 * Point

\* the entry in the configuration of the company a call has returned
ReturnedData == CompanyData(matcher.config, last.result[1].company)

\* C19 as stated: find_best_match returns a company only when every one of
\* its required_keywords occurs in the normalized input text and the matched
\* alias is none of its excluded_standalone words.
C19_AllKeywordsRequired ==
    (last.op = "find_best_match" /\ last.result[1].company # None) =>
        /\ \A k \in DOMAIN ReturnedData.required_keywords :
              Contains(normalize(Basename(matcher.file_path)),
                       Lower(ReturnedData.required_keywords[k]))
        /\ last.result[1].matched_text \notin
              {Lower(ReturnedData.excluded_standalone[k]) :
                  k \in DOMAIN ReturnedData.excluded_standalone}

\* what find_best_match returns for the whole name of the file asked about
WholeName == find_best_match(matcher, Basename(matcher.file_path))
\* extract_company_names_from_filename has just returned, and the whole name
\* matches a company with a score of at least the threshold and at least 95
ShortCircuited ==
    /\ last.op = "extract_company_names_from_filename"
    /\ WholeName.company # None
    /\ WholeName.score >= matcher.threshold
    /\ WholeName.score >= 95 * Point

\* C20: when find_best_match on the whole file name returns a company with a
\* score of at least the threshold and at least 95,
\* extract_company_names_from_filename returns the list of that one match
\* and nothing from the runs of tokens or the single tokens.
C20_WholeNameAlone == ShortCircuited => last.result = <<WholeName>>

\* the whole name matched one company with score 100 and is the whole
\* result, while a token of the name is an alias of another company of the
\* matcher, which priority 3 would have added at this threshold
C20_Witness ==
    /\ ShortCircuited
    /\ last.result = <<WholeName>>
    /\ WholeName.company # Kappa
    /\ Kappa \in Companies(ThirdTier(matcher, last.result,
                                      NameParts(Basename(matcher.file_path))))


(***************************************************************************)
(* extract_company_names_from_path: the scores.                            *)
(***************************************************************************)
\* C21: under every threshold, a match of the file name (its score raised
\* by 15, at most 100) is not scored lower than a match of a part of the
\* path for the same company (its score lowered by 10), when both scores
\* clear the threshold
C21_FilenameOutranksPath ==
    (/\ last.op = "scores"
     /\ last.filename_matches # << >>
     /\ last.path_matches # << >>)
    => last.filename_matches[1].score >= last.path_matches[1].score

(***************************************************************************)
(* CompanyNameNormalizer.normalize.                                        *)
(***************************************************************************)
\* C22: normalize is idempotent: normalizing a text that normalize returned
\* gives that text back
C22_NormalizeIdempotent ==
    (last.op = "normalize" /\ last.calls >= 2) => last.result = last.text

(***************************************************************************)
(* FileOrganizerCore: where the files go.                                  *)
(***************************************************************************)
\* name is plain, or plain with a collision suffix: stem_<digits>.ext
IsCollisionNameOf(name, plain) ==
    \/ name = plain
    \/ LET head == Stem(plain) \o <<"_">>
           tail == Suffix(plain)
       IN  /\ Len(name) > Len(head) + Len(tail)
           /\ SubSeq(name, 1, Len(head)) = head
           /\ SubSeq(name, Len(name) - Len(tail) + 1, Len(name)) = tail
           /\ \A i \in (Len(head) + 1)..(Len(name) - Len(tail)) :
                 name[i] \in Range(Digits)

\* C23: every file a non-simulated run has moved stands, up to a collision
\* suffix, at the output root joined with the suggested path of its match:
\* company, category, year, and the name with the date before it
C23_MovedToSuggestedPath ==
    \A k \in 1..Len(run.performed) :
        (run.performed[k].operation_type = OpMove /\ run.performed[k].success = "True")
        => /\ Parent(run.performed[k].new_path)
                 = OutDir \o Parent(suggested_path(run.performed[k].original_path))
           /\ IsCollisionNameOf(Basename(run.performed[k].new_path),
                                Basename(suggested_path(run.performed[k].original_path)))

\* C24: when progress_callback raises in the move phase, the run moves no
\* file after that and changes nothing of what it has done: the files moved
\* before stand at their new paths and the rows of the log stay as they are;
\* when it raises during the scan or the analysis, the run moves nothing.
C24_CancelStopsRun ==
    [][(run.cancelled \/ run'.cancelled) =>
          /\ fs' = fs
          /\ csv' = csv
          /\ run'.pc = "returned"
          /\ run'.performed = run.performed
          /\ \A k \in MovedRows(csv') : IsFile(fs', DataLines(csv')[k].new_path)
          /\ run.pc = "idle" => (fs' = origin /\ run'.performed = << >>)]_vars

\* a run of two matches was cancelled after the first: the file of the first
\* is moved and its row is in the log, the file of the second is where it was
C24_Witness ==
    /\ run.cancelled
    /\ run.pc = "returned"
    /\ Len(run.result.matches) = 2
    /\ run.result.successful_moves = 1
    /\ MovedRows(csv) # {}
    /\ \A k \in MovedRows(csv) : IsFile(fs, DataLines(csv)[k].new_path)
    /\ IsFile(fs, run.result.matches[2])
    /\ fs # origin

(***************************************************************************)
(* FileOrganizer._resolve_name_collision.                                  *)
(***************************************************************************)
\* the path move_file asks for: the destination directory and the name of
\* the source
PlainPath == Append(last'.dest, Basename(last'.source))
\* the suffixed paths of these counters all exist
AllTaken(paths, plain, counters) ==
    \A k \in counters : CollisionPath(plain, k) \in paths
\* a non-simulated move_file is called for a file that is there, with the
\* path it asks for taken
MoveOntoTaken ==
    /\ MoveFileCalled
    /\ ~dry_run
    /\ IsFile(fs, last'.source)
    /\ Exists(fs, PlainPath)

\* C25: a non-simulated move_file whose destination path is taken moves the
\* file to stem_k.ext for the smallest k of 1..9999 whose path is free, and
\* leaves everything else as it is; it raises only when the plain name and
\* all of stem_1 to stem_9999 are taken, and then the filesystem and the log
\* stay as they are.
C25_SmallestFreeSuffix ==
    [][MoveOntoTaken =>
          IF last'.raised
          THEN /\ AllTaken(DOMAIN fs, PlainPath, 1..CollisionLimit)
               /\ ~last'.ok
               /\ fs' = fs
               /\ csv' = csv
          ELSE /\ last'.ok
               /\ \E k \in 1..CollisionLimit :
                     /\ last'.path = CollisionPath(PlainPath, k)
                     /\ ~Exists(fs, last'.path)
                     /\ AllTaken(DOMAIN fs, PlainPath, 1..(k - 1))
               /\ DOMAIN fs' = (DOMAIN fs \ {last'.source}) \cup {last'.path}
               /\ fs'[last'.path] = fs[last'.source]
               /\ \A q \in DOMAIN fs \ {last'.source} : fs'[q] = fs[q]]_vars

\* the call has raised with the plain name and every suffixed name taken
C25_Witness ==
    /\ last.op = "move_file"
    /\ ~last.dry
    /\ last.raised
    /\ IsFile(fs, last.source)
    /\ fs = origin
    /\ Exists(fs, Append(last.dest, Basename(last.source)))
    /\ AllTaken(DOMAIN fs, Append(last.dest, Basename(last.source)), 1..CollisionLimit)

\* the call has moved the file to the last name the loop tries
C25_WitnessLast ==
    /\ last.op = "move_file"
    /\ last.ok
    /\ ~last.dry
    /\ last.path = CollisionPath(Append(last.dest, Basename(last.source)), CollisionLimit)
    /\ IsFile(fs, last.path)
    /\ ~Exists(origin, last.path)

\* the run has returned and the outer except clause has noted nothing
ReturnedWithoutGeneralError ==
    /\ run.pc = "returned"
    /\ \A k \in 1..Len(run.result.errors) : run.result.errors[k] # "general"

\* C26: when organize_files returns without a general error, total_files is
\* processed_files + skipped_files, processed_files is the number of
\* matches, and successful_moves + failed_moves is processed_files in a
\* non-simulated run, while both are 0 in a simulated one.
C26_CountersConsistent ==
    ReturnedWithoutGeneralError =>
        /\ run.result.total_files
              = run.result.processed_files + run.result.skipped_files
        /\ run.result.processed_files = Len(run.result.matches)
        /\ IF dry_run
           THEN run.result.successful_moves = 0 /\ run.result.failed_moves = 0
           ELSE run.result.successful_moves + run.result.failed_moves
                    = run.result.processed_files

\* a non-simulated run of three files has returned: one had no match, one
\* was gone when it was to be moved, one is moved
C26_Witness ==
    /\ ReturnedWithoutGeneralError
    /\ ~dry_run
    /\ run.result.total_files = 3
    /\ run.result.skipped_files = 1
    /\ run.result.successful_moves = 1
    /\ run.result.failed_moves = 1

\* a simulated run has returned with a match and a file without one
C26_WitnessSimulated ==
    /\ ReturnedWithoutGeneralError
    /\ dry_run
    /\ run.result.processed_files = 1
    /\ run.result.skipped_files = 1
    /\ fs = origin

\* the run was not simulated, raised nothing and lost no log row, and a
\* non-simulated undo of its log has finished
RunUndone ==
    /\ run.pc = "returned"
    /\ ~dry_run
    /\ ~run.cancelled
    /\ run.lost = 0
    /\ run.result.errors = << >>
    /\ run.result.successful_moves > 0
    /\ upc = "done"
    /\ ~undo_dry

\* C27: after a non-simulated organize_files run with a logger attached and
\* undo_operations on its log, the filesystem is the same as before the run:
\* every moved file is back, no directory the run created remains and no
\* directory that was there before is gone.
C27_UndoRestoresTree == RunUndone => fs = origin

\* the undo that runs was called right after a non-simulated undo returned
SecondUndo ==
    /\ upc \in {"loop", "done"}
    /\ last.op = "undo_operations"
    /\ last.ok
    /\ ~last.dry

\* C28: undo_operations called a second time on the same log, right after a
\* first non-simulated undo of that log, changes nothing on the filesystem.
C28_SecondUndoChangesNothing == (SecondUndo /\ upc = "done") => fs = fs0

\* the statement as it stands: under every threshold
C29_Original ==
    (last.op = "scores" /\ last.path_matches # << >>) =>
        /\ last.path_raw >= matcher.threshold + 10 * Point
        /\ last.path_matches[1].score = last.path_raw - 10 * Point

\* C29: under a threshold above 0, a match of a part of the path comes from
\* a raw score of at least the threshold plus 10 and is reported with the raw
\* score minus 10; under a threshold above 90 no part of the path gives a
\* match.
C29_PathPenalty ==
    last.op = "scores" =>
        /\ (last.path_matches # << >> /\ matcher.threshold > 0) =>
              /\ last.path_raw >= matcher.threshold + 10 * Point
              /\ last.path_matches[1].score = last.path_raw - 10 * Point
        /\ matcher.threshold > 90 * Point => last.path_matches = << >>

\* a part of the path scoring 100 is reported with 90 under the threshold 85
C29_Witness ==
    /\ last.op = "scores"
    /\ matcher.threshold = 85 * Point
    /\ last.path_raw = 100 * Point
    /\ Len(last.path_matches) = 1
    /\ last.path_matches[1].score = 90 * Point

(***************************************************************************)
(* undo_operations: what it may touch.                                     *)
(***************************************************************************)
\* a step of the loop of undo_operations: the record at the head is done
UndoStepTaken ==
    /\ upc = "loop"
    /\ queue # << >>
    /\ queue' = Tail(queue)

\* from tree s to tree t only what the record names has changed: a file at
\* the new_path of a move is now at its original_path, below directories made
\* for it, or the directory at the new_path of a create_dir is gone
FrameOfRecord(s, t, operation) ==
    /\ \A p \in DOMAIN s \ DOMAIN t :
          /\ p = operation.new_path
          /\ \/ operation.operation_type = OpMove /\ IsFile(s, p)
             \/ operation.operation_type = OpCreateDir /\ IsDir(s, p)
    /\ \A p \in DOMAIN t \ DOMAIN s :
          /\ operation.operation_type = OpMove
          /\ \/ p = operation.original_path /\ t[p] = s[operation.new_path]
             \/ /\ p \in Prefixes(Parent(operation.original_path))
                /\ t[p] = Dir
    /\ \A p \in DOMAIN s \cap DOMAIN t : t[p] = s[p]

\* C30: undo_operations changes only what the successful records of the log
\* name: a step of its loop moves the file at the new_path of a move record
\* to the original_path (making the parent directories), or removes the
\* directory at the new_path of a create_dir record, and leaves every other
\* file and directory as it was; no step of it changes the log.
C30_UndoFrame ==
    [][(upc # "idle" \/ upc' # "idle") =>
          /\ csv' = csv
          /\ IF UndoStepTaken
             THEN /\ Head(queue).success
                  /\ Head(queue) \in Range(load_operations_from_csv(csv))
                  /\ FrameOfRecord(fs, fs', Head(queue))
             ELSE fs' = fs]_vars


=============================================================================
